---- MODULE Spec2Model ----
(***************************************************************************)
(* Model of the Unbound add-on's web back end (src/unbound/web):           *)
(*   config_gen.py  schema, load/save, validate, render, safe apply        *)
(*   app.py         HTTP handlers that drive the config pipeline           *)
(*                                                                         *)
(* Files are modelled as records [exists, ...]; Python and JSON values as  *)
(* tagged records so that every conversion is computed, never assumed.     *)
(***************************************************************************)
EXTENDS Integers, Sequences, FiniteSets, TLC

(***************************************************************************)
(* Python runtime values.  One record shape for every value so that any    *)
(* two values can be compared: t is type(val).__name__.                    *)
(***************************************************************************)
PyBool(x) == [t |-> "bool", b |-> x, i |-> 0, l |-> <<>>, s |-> ""]
PyInt(n)  == [t |-> "int", b |-> FALSE, i |-> n, l |-> <<>>, s |-> ""]
PyList(q) == [t |-> "list", b |-> FALSE, i |-> 0, l |-> q, s |-> ""]
PyStr(x)  == [t |-> "str", b |-> FALSE, i |-> 0, l |-> <<>>, s |-> x]
PyNone    == [t |-> "NoneType", b |-> FALSE, i |-> 0, l |-> <<>>, s |-> ""]

\* isinstance(val, bool) / isinstance(val, int) / isinstance(val, list):
\* bool is a subclass of int in Python.
IsInstanceBool(val) == val.t = "bool"
IsInstanceInt(val)  == val.t \in {"int", "bool"}
IsInstanceList(val) == val.t = "list"

\* The integer a numeric value compares as (True is 1, False is 0).
NumOf(val) == IF val.t = "bool" THEN (IF val.b THEN 1 ELSE 0) ELSE val.i

\* Python's == on the values of the model: numbers compare by value across
\* bool and int, everything else by type and content.
PyEq(a, b) ==
    IF IsInstanceInt(a) /\ IsInstanceInt(b) THEN NumOf(a) = NumOf(b)
    ELSE a = b

\* Truthiness, as used by "if config.get(...)" and _bool_to_yesno.
Truthy(val) ==
    CASE val.t = "bool" -> val.b
      [] val.t = "int" -> val.i # 0
      [] val.t = "list" -> val.l # <<>>
      [] val.t = "str" -> val.s # ""
      [] OTHER -> FALSE

\* str(val) as produced by an f-string field; list elements are strings.
RECURSIVE JoinStr(_, _)
JoinStr(parts, sep) ==
    IF parts = <<>> THEN ""
    ELSE IF Len(parts) = 1 THEN Head(parts)
    ELSE Head(parts) \o sep \o JoinStr(Tail(parts), sep)

Quoted(q) == [n \in 1..Len(q) |-> "'" \o q[n] \o "'"]

PyFormat(val) ==
    CASE val.t = "bool" -> IF val.b THEN "True" ELSE "False"
      [] val.t = "int" -> ToString(val.i)
      [] val.t = "list" -> "[" \o JoinStr(Quoted(val.l), ", ") \o "]"
      [] val.t = "str" -> val.s
      [] OTHER -> "None"

(***************************************************************************)
(* JSON documents (file contents and request bodies).  json.dump and       *)
(* json.load translate between Python types and JSON types.                *)
(***************************************************************************)
JBool(x) == [t |-> "boolean", b |-> x, i |-> 0, l |-> <<>>, s |-> ""]
JNum(n)  == [t |-> "number", b |-> FALSE, i |-> n, l |-> <<>>, s |-> ""]
JArr(q)  == [t |-> "array", b |-> FALSE, i |-> 0, l |-> q, s |-> ""]
JStr(x)  == [t |-> "string", b |-> FALSE, i |-> 0, l |-> <<>>, s |-> x]
JNull    == [t |-> "null", b |-> FALSE, i |-> 0, l |-> <<>>, s |-> ""]

json_dump_value(val) ==
    CASE val.t = "bool" -> JBool(val.b)
      [] val.t = "int" -> JNum(val.i)
      [] val.t = "list" -> JArr(val.l)
      [] val.t = "str" -> JStr(val.s)
      [] OTHER -> JNull

json_load_value(j) ==
    CASE j.t = "boolean" -> PyBool(j.b)
      [] j.t = "number" -> PyInt(j.i)
      [] j.t = "array" -> PyList(j.l)
      [] j.t = "string" -> PyStr(j.s)
      [] OTHER -> PyNone

json_dump(obj) == [k \in DOMAIN obj |-> json_dump_value(obj[k])]
json_load(doc) == [k \in DOMAIN doc |-> json_load_value(doc[k])]

\* dict.update: the keys of upd override or extend those of base.
DictUpdate(base, upd) ==
    [k \in (DOMAIN base) \cup (DOMAIN upd) |->
        IF k \in DOMAIN upd THEN upd[k] ELSE base[k]]

EmptyDict == [k \in {} |-> PyNone]

(***************************************************************************)
(* Paths and program constants of config_gen.py.                           *)
(***************************************************************************)
UNBOUND_CONF == "/etc/unbound/unbound.conf"
BLOCKLIST_CONF == "/etc/unbound/blocklist.conf"
LOCAL_RECORDS_CONF == "/etc/unbound/local_records.conf"
QUERY_LOG_FILE == "/data/unbound_queries.log"
LOG_MAX_SIZE == 50 * 1024 * 1024

(***************************************************************************)
(* CONFIG_SCHEMA, in declaration order.                                    *)
(***************************************************************************)
SBool(k, d) ==
    [key |-> k, type |-> "bool", default |-> PyBool(d), has_min |-> FALSE,
     min |-> 0, has_max |-> FALSE, max |-> 0, restart_required |-> FALSE]
SInt(k, d, lo, hi, rr) ==
    [key |-> k, type |-> "int", default |-> PyInt(d), has_min |-> TRUE,
     min |-> lo, has_max |-> TRUE, max |-> hi, restart_required |-> rr]
SList(k, d) ==
    [key |-> k, type |-> "list", default |-> PyList(d), has_min |-> FALSE,
     min |-> 0, has_max |-> FALSE, max |-> 0, restart_required |-> FALSE]

CONFIG_SCHEMA ==
    << SBool("custom_config", FALSE),
       SList("access_control",
             <<"127.0.0.0/8", "10.0.0.0/8", "172.16.0.0/12", "192.168.0.0/16">>),
       SInt("num_threads", 2, 1, 16, TRUE),
       SBool("prefetch", TRUE),
       SInt("fast_server_permil", 500, 0, 1000, FALSE),
       SInt("fast_server_num", 5, 1, 20, FALSE),
       SBool("prefer_ip4", TRUE),
       SBool("do_ip4", TRUE),
       SBool("do_ip6", TRUE),
       SInt("cache_min_ttl", 60, 0, 86400, FALSE),
       SInt("cache_max_ttl", 86400, 60, 604800, FALSE),
       SBool("enable_dnssec", TRUE),
       SBool("qname_minimisation", TRUE),
       SBool("hide_identity", TRUE),
       SBool("hide_version", TRUE),
       SList("forward_servers", <<>>),
       SBool("forward_tls", FALSE),
       SInt("verbosity", 1, 0, 5, FALSE),
       SBool("log_queries", FALSE) >>

SchemaKeys == {CONFIG_SCHEMA[n].key : n \in 1..Len(CONFIG_SCHEMA)}
SchemaOf(k) == CONFIG_SCHEMA[CHOOSE n \in 1..Len(CONFIG_SCHEMA) : CONFIG_SCHEMA[n].key = k]

_defaults == [k \in SchemaKeys |-> SchemaOf(k).default]

(***************************************************************************)
(* validate_config: one pass over the schema in order, appending errors.   *)
(***************************************************************************)
\* A variant whose integer test omits the exclusion of booleans.
ValidateOne_BoolIsInt(schema, config) ==
    LET key == schema.key
        val == config[key]
    IN  IF key \notin DOMAIN config THEN <<>>
        ELSE CASE schema.type = "bool" ->
                    IF ~IsInstanceBool(val)
                    THEN << key \o ": expected bool, got " \o val.t >>
                    ELSE <<>>
               [] schema.type = "int" ->
                    IF ~IsInstanceInt(val)
                    THEN << key \o ": expected int, got " \o val.t >>
                    ELSE (IF schema.has_min /\ NumOf(val) < schema.min
                          THEN << key \o ": minimum is " \o ToString(schema.min)
                                      \o ", got " \o PyFormat(val) >>
                          ELSE <<>>)
                         \o
                         (IF schema.has_max /\ NumOf(val) > schema.max
                          THEN << key \o ": maximum is " \o ToString(schema.max)
                                      \o ", got " \o PyFormat(val) >>
                          ELSE <<>>)
               [] schema.type = "list" ->
                    IF ~IsInstanceList(val)
                    THEN << key \o ": expected list, got " \o val.t >>
                    ELSE <<>>
               [] OTHER -> <<>>

ValidateOne(schema, config) ==
    LET key == schema.key
        val == config[key]
    IN  IF key \notin DOMAIN config THEN <<>>
        ELSE CASE schema.type = "bool" ->
                    IF ~IsInstanceBool(val)
                    THEN << key \o ": expected bool, got " \o val.t >>
                    ELSE <<>>
               [] schema.type = "int" ->
                    IF ~IsInstanceInt(val) \/ IsInstanceBool(val)
                    THEN << key \o ": expected int, got " \o val.t >>
                    ELSE (IF schema.has_min /\ val.i < schema.min
                          THEN << key \o ": minimum is " \o ToString(schema.min)
                                      \o ", got " \o ToString(val.i) >>
                          ELSE <<>>)
                         \o
                         (IF schema.has_max /\ val.i > schema.max
                          THEN << key \o ": maximum is " \o ToString(schema.max)
                                      \o ", got " \o ToString(val.i) >>
                          ELSE <<>>)
               [] schema.type = "list" ->
                    IF ~IsInstanceList(val)
                    THEN << key \o ": expected list, got " \o val.t >>
                    ELSE <<>>
               [] OTHER -> <<>>

RECURSIVE ValidateFrom(_, _)
ValidateFrom(n, config) ==
    IF n > Len(CONFIG_SCHEMA) THEN <<>>
    ELSE ValidateOne(CONFIG_SCHEMA[n], config) \o ValidateFrom(n + 1, config)

validate_config(config) == ValidateFrom(1, config)

(***************************************************************************)
(* State: the files the back end reads and writes, the configuration the   *)
(* running daemon has loaded, and a record of the last operation.          *)
(***************************************************************************)
VARIABLES
    config_file,     \* /data/config.json: [exists, doc]
    options_file,    \* /data/options.json: [exists, doc]
    unbound_conf,    \* /etc/unbound/unbound.conf: [exists, text]
    query_log,       \* /data/unbound_queries.log: [exists, size]
    query_log_old,   \* /data/unbound_queries.log.old: [exists, size]
    daemon_conf,     \* what the running unbound has loaded: [exists, text]
    last,            \* the last operation and what it returned
    blocklists_file,        \* /data/blocklists.json: [exists, doc]
    whitelist_file,         \* /data/whitelist.json: [exists, doc]
    blocklist_status_file,  \* /data/blocklist_status.json: [exists, doc]
    blocklist_conf,         \* /etc/unbound/blocklist.conf: [exists, text]
    local_records_file,     \* /data/local_records.json: [exists, doc]
    local_records_conf,     \* /etc/unbound/local_records.conf: [exists, text]
    procs,                  \* the locals of each thread running a refresh
    timer,                  \* the timer thread's clock
    bl_last                 \* the last request on the lists and its response

\* The files of the settings pipeline and those of the lists.
config_vars == <<config_file, options_file, unbound_conf, query_log, query_log_old,
                 daemon_conf, last>>
list_files == <<blocklists_file, whitelist_file, blocklist_status_file,
                blocklist_conf, local_records_file, local_records_conf>>
list_vars == <<list_files, procs, timer, bl_last>>

vars == <<config_vars, list_vars>>

NoDoc == [exists |-> FALSE, doc |-> EmptyDict]
Doc(d) == [exists |-> TRUE, doc |-> d]
NoText == [exists |-> FALSE, text |-> <<>>]
Text(x) == [exists |-> TRUE, text |-> x]
NoLog == [exists |-> FALSE, size |-> 0]
Log(n) == [exists |-> TRUE, size |-> n]

\* A variant that merges the defaults over the stored document.
LoadFrom_DefaultsWin(file) ==
    DictUpdate(IF file.exists THEN json_load(file.doc) ELSE EmptyDict, _defaults)

\* load_config as a function of the stored file.
LoadFrom(file) ==
    DictUpdate(_defaults, IF file.exists THEN json_load(file.doc) ELSE EmptyDict)

load_config == LoadFrom(config_file)

\* save_config: the file's new content.
save_config(config) == Doc(json_dump(config))

\* dict.get(key) with the default None.
DictGet(config, key) == IF key \in DOMAIN config THEN config[key] ELSE PyNone

_bool_to_yesno(val) == IF Truthy(val) THEN "yes" ELSE "no"

(***************************************************************************)
(* generate_unbound_conf.  The text depends on the config only; the log    *)
(* rotation it performs first is RotateLog below.                          *)
(***************************************************************************)
AccessControlLines(config) ==
    LET nets == IF "access_control" \in DOMAIN config
                THEN config["access_control"].l ELSE <<>>
    IN  [n \in 1..Len(nets) |-> "    access-control: " \o nets[n] \o " allow"]

DnssecLines(config) ==
    IF Truthy(DictGet(config, "enable_dnssec"))
    THEN << "", "    # DNSSEC validation", "    val-clean-additional: yes" >>
    ELSE << "", "    # DNSSEC validation disabled", "    module-config: \"iterator\"" >>

ForwardZoneLines(config) ==
    LET forward_servers == IF "forward_servers" \in DOMAIN config
                           THEN config["forward_servers"] ELSE PyList(<<>>)
        forward_tls == IF "forward_tls" \in DOMAIN config
                       THEN config["forward_tls"] ELSE PyBool(FALSE)
    IN  IF Truthy(forward_servers)
        THEN << "", "forward-zone:", "    name: \".\"",
                "    forward-tls-upstream: " \o _bool_to_yesno(forward_tls) >>
             \o [n \in 1..Len(forward_servers.l) |->
                    "    forward-addr: " \o forward_servers.l[n]]
        ELSE <<>>

ConfLines(config) ==
    LET log_file == IF Truthy(DictGet(config, "log_queries")) THEN QUERY_LOG_FILE ELSE ""
    IN  << "server:",
           "    # Daemon settings",
           "    do-daemonize: no",
           "    chroot: \"\"",
           "",
           "    # Network settings",
           "    interface: 0.0.0.0",
           "    port: 53",
           "    do-ip4: " \o _bool_to_yesno(config["do_ip4"]),
           "    do-ip6: " \o _bool_to_yesno(config["do_ip6"]),
           "    prefer-ip4: " \o _bool_to_yesno(config["prefer_ip4"]),
           "    do-udp: yes",
           "    do-tcp: yes",
           "    do-not-query-localhost: no",
           "",
           "    # Performance settings",
           "    num-threads: " \o PyFormat(config["num_threads"]),
           "    prefetch: " \o _bool_to_yesno(config["prefetch"]),
           "    fast-server-permil: " \o PyFormat(config["fast_server_permil"]),
           "    fast-server-num: " \o PyFormat(config["fast_server_num"]),
           "    msg-cache-slabs: 4",
           "    rrset-cache-slabs: 4",
           "    infra-cache-slabs: 4",
           "    key-cache-slabs: 4",
           "",
           "    # Cache settings",
           "    cache-min-ttl: " \o PyFormat(config["cache_min_ttl"]),
           "    cache-max-ttl: " \o PyFormat(config["cache_max_ttl"]),
           "",
           "    # Privacy settings",
           "    qname-minimisation: " \o _bool_to_yesno(config["qname_minimisation"]),
           "    hide-identity: " \o _bool_to_yesno(config["hide_identity"]),
           "    hide-version: " \o _bool_to_yesno(config["hide_version"]),
           "",
           "    # Root hints for recursive resolution",
           "    root-hints: \"/etc/unbound/root.hints\"",
           "",
           "    # Trust anchor for DNSSEC",
           "    auto-trust-anchor-file: \"/var/lib/unbound/root.key\"",
           "",
           "    # Hardening",
           "    harden-glue: yes",
           "    harden-dnssec-stripped: yes",
           "    harden-referral-path: yes",
           "",
           "    # Log settings",
           "    verbosity: " \o PyFormat(config["verbosity"]),
           "    logfile: \"" \o log_file \o "\"",
           "    log-queries: " \o _bool_to_yesno(config["log_queries"]),
           "    log-replies: " \o _bool_to_yesno(config["log_queries"]),
           "    log-servfail: yes",
           "",
           "    # Include blocklist and local records",
           "    include: \"" \o BLOCKLIST_CONF \o "\"",
           "    include: \"" \o LOCAL_RECORDS_CONF \o "\"" >>
        \o AccessControlLines(config)
        \o DnssecLines(config)
        \o << "",
              "remote-control:",
              "    control-enable: yes",
              "    control-interface: 127.0.0.1",
              "    server-key-file: \"/etc/unbound/unbound_server.key\"",
              "    server-cert-file: \"/etc/unbound/unbound_server.pem\"",
              "    control-key-file: \"/etc/unbound/unbound_control.key\"",
              "    control-cert-file: \"/etc/unbound/unbound_control.pem\"" >>
        \o ForwardZoneLines(config)
        \o << "" >>

\* "\n".join(lines): a text is held as the sequence of its lines, the form
\* in which two texts are equal iff their joins are.
\* A variant that names the log file only once the file exists.
generate_unbound_conf_LogIfPresent(config) ==
    IF query_log.exists THEN ConfLines(config)
    ELSE ConfLines("log_queries" :> PyBool(FALSE) @@ config)

generate_unbound_conf(config) == ConfLines(config)

\* Keys that generate_unbound_conf subscripts (config['...']); a config
\* without one of them raises KeyError, and a non-list where the code
\* iterates raises TypeError.
SubscriptedKeys ==
    {"do_ip4", "do_ip6", "prefer_ip4", "num_threads", "prefetch",
     "fast_server_permil", "fast_server_num", "cache_min_ttl", "cache_max_ttl",
     "qname_minimisation", "hide_identity", "hide_version", "verbosity",
     "log_queries"}

RenderRaises(config) ==
    \/ ~(SubscriptedKeys \subseteq DOMAIN config)
    \/ DictGet(config, "access_control").t # "list"
    \/ /\ Truthy(DictGet(config, "forward_servers"))
       /\ DictGet(config, "forward_servers").t # "list"

\* The rotation generate_unbound_conf performs before building the text:
\* fs is what the file system does ("ok", or an OSError at the move or at
\* the re-creation, both swallowed).  Result: <<query_log, query_log_old>>.
RotateLog(config, fs) ==
    IF /\ Truthy(DictGet(config, "log_queries"))
       /\ query_log.exists
       /\ query_log.size > LOG_MAX_SIZE
    THEN CASE fs = "ok" -> << Log(0), Log(query_log.size) >>
           [] fs = "move_fails" -> << query_log, query_log_old >>
           [] OTHER -> << NoLog, Log(query_log.size) >>
    ELSE << query_log, query_log_old >>

(***************************************************************************)
(* External processes: unbound-checkconf and unbound-control reload.       *)
(* subprocess.run either returns an exit status or raises TimeoutExpired   *)
(* or FileNotFoundError; "none" records that the process was not started.  *)
(***************************************************************************)
ProcOutcomes == {"ok", "nonzero", "timeout", "notfound"}
FsOutcomes == {"ok", "move_fails", "create_fails"}

\* A variant that takes any finished run of the checker for a success.
check_conf_IgnoresExit(chk) ==
    CASE chk \in {"ok", "nonzero"} -> << TRUE, "unbound-checkconf: no errors in " \o UNBOUND_CONF >>
      [] chk = "timeout" ->
            << FALSE, "Command '['unbound-checkconf', '" \o UNBOUND_CONF
                          \o "']' timed out after 10 seconds" >>
      [] OTHER -> << FALSE, "[Errno 2] No such file or directory: 'unbound-checkconf'" >>

\* check_conf: <<ok, output>>.
check_conf(chk) ==
    CASE chk = "ok" -> << TRUE, "unbound-checkconf: no errors in " \o UNBOUND_CONF >>
      [] chk = "nonzero" -> << FALSE, UNBOUND_CONF \o ":1: error: syntax error" >>
      [] chk = "timeout" ->
            << FALSE, "Command '['unbound-checkconf', '" \o UNBOUND_CONF
                          \o "']' timed out after 10 seconds" >>
      [] OTHER -> << FALSE, "[Errno 2] No such file or directory: 'unbound-checkconf'" >>

\* _reload_unbound: <<ok, output>>.
_reload_unbound(rl) ==
    CASE rl = "ok" -> << TRUE, "ok" >>
      [] rl = "nonzero" -> << FALSE, "error: connect: Connection refused" >>
      [] rl = "timeout" ->
            << FALSE, "Command '['unbound-control', 'reload']' timed out after 5 seconds" >>
      [] OTHER -> << FALSE, "[Errno 2] No such file or directory: 'unbound-control'" >>

(***************************************************************************)
(* apply_config(new_config): the whole pipeline as one function of the     *)
(* current files and of what the external processes answer.  It yields     *)
(* the files afterwards, the steps taken in order and the returned dict    *)
(* (raised = TRUE when the call ends in an exception instead).             *)
(***************************************************************************)
Outcome(cf, uc, logs, dc, steps, chk, rl, content, result, raised) ==
    [config_file |-> cf, unbound_conf |-> uc, query_log |-> logs[1],
     query_log_old |-> logs[2], daemon_conf |-> dc, steps |-> steps,
     check |-> chk, reload |-> rl, content |-> content, result |-> result,
     raised |-> raised, errors |-> <<>>]

\* Lines 335-337: the early return on validation errors.
ValidationRejection(errors) ==
    "ok" :> PyBool(FALSE)
      @@ "message" :> PyStr("Validation failed: " \o JoinStr(errors, "; "))

\* A variant that persists the candidate before returning the rejection.
RejectInvalid_SavesFirst(new_config, errors) ==
    [Outcome(save_config(new_config), unbound_conf, << query_log, query_log_old >>,
             daemon_conf, << "validate_config", "save_config" >>, "none", "none", <<>>,
             ValidationRejection(errors), FALSE)
       EXCEPT !.errors = errors]

RejectInvalid(new_config, errors) ==
    [Outcome(config_file, unbound_conf, << query_log, query_log_old >>, daemon_conf,
             << "validate_config" >>, "none", "none", <<>>,
             ValidationRejection(errors), FALSE)
       EXCEPT !.errors = errors]

\* A variant that compares the whole configurations.
RestartRequired_AnyChange(old_config, new_config) == old_config # new_config

\* Line 341.
RestartRequired(old_config, new_config) ==
    ~PyEq(DictGet(old_config, "num_threads"), DictGet(new_config, "num_threads"))

\* A variant that restores the artifact and leaves the stored document.
Rollback_ArtifactOnly(backup, old_config, new_config, written) ==
    << save_config(new_config), IF backup.exists THEN backup ELSE written >>

\* Lines 357-363: the rollback.  Yields <<config_file, unbound_conf>>, where
\* written is the artifact the call has just put on disk.
Rollback(backup, old_config, new_config, written) ==
    << save_config(old_config), IF backup.exists THEN backup ELSE written >>

CheckRejection(output) ==
    "ok" :> PyBool(FALSE) @@ "message" :> PyStr("Config check failed: " \o output)

\* A variant that returns the short dict of the rejection paths.
ReloadFailure_NoRestartKey(reload_msg, restart_required) ==
    "ok" :> PyBool(TRUE)
      @@ "message" :> PyStr("Config saved but reload failed: " \o reload_msg)

\* Lines 367-371.
ReloadFailure(reload_msg, restart_required) ==
    "ok" :> PyBool(TRUE)
      @@ "message" :> PyStr("Config saved but reload failed: " \o reload_msg
                            \o (IF restart_required
                                THEN " (addon restart required for thread count change)"
                                ELSE ""))
      @@ "restart_required" :> PyBool(restart_required)

\* Lines 373-376.
Success(restart_required) ==
    "ok" :> PyBool(TRUE)
      @@ "message" :> PyStr(
            IF restart_required
            THEN "Configuration saved. Addon restart required for thread count change to take effect."
            ELSE "Configuration applied successfully.")
      @@ "restart_required" :> PyBool(restart_required)

apply_config(new_config, chk, rl, fs) ==
    LET errors == validate_config(new_config)
        old_config == load_config
        restart_required == RestartRequired(old_config, new_config)
        backup == unbound_conf
        content == generate_unbound_conf(new_config)
        logs == RotateLog(new_config, fs)
        checked == check_conf(chk)
        reloaded == _reload_unbound(rl)
        rolled == Rollback(backup, old_config, new_config, Text(content))
        before_check ==
            << "validate_config", "load_config" >>
            \o (IF backup.exists THEN << "read_backup" >> ELSE <<>>)
            \o << "save_config", "generate_unbound_conf" >>
    IN  IF errors # <<>>
        THEN RejectInvalid(new_config, errors)
        ELSE IF RenderRaises(new_config)
        THEN Outcome(save_config(new_config), unbound_conf, logs, daemon_conf,
                     before_check, "none", "none", <<>>, EmptyDict, TRUE)
        ELSE IF ~checked[1]
        THEN Outcome(rolled[1], rolled[2], logs, daemon_conf,
                     before_check \o << "write_conf", "check_conf" >>
                       \o (IF backup.exists THEN << "restore_backup" >> ELSE <<>>)
                       \o << "save_config" >>,
                     chk, "none", content, CheckRejection(checked[2]), FALSE)
        ELSE IF ~reloaded[1]
        THEN Outcome(save_config(new_config), Text(content), logs, daemon_conf,
                     before_check \o << "write_conf", "check_conf", "_reload_unbound" >>,
                     chk, rl, content,
                     ReloadFailure(reloaded[2], restart_required), FALSE)
        ELSE Outcome(save_config(new_config), Text(content), logs, Text(content),
                     before_check \o << "write_conf", "check_conf", "_reload_unbound" >>,
                     chk, rl, content, Success(restart_required), FALSE)

(***************************************************************************)
(* Inputs of the model: request bodies of PUT /api/config and the add-on   *)
(* options the supervisor may have written to /data/options.json.          *)
(***************************************************************************)
EmptyDoc == [k \in {} |-> JNull]

PutBodies ==
    { EmptyDoc,
      "num_threads" :> JNum(4),
      "log_queries" :> JBool(TRUE),
      "prefetch" :> JBool(FALSE) @@ "note" :> JStr("lab resolver"),
      "num_threads" :> JNum(17),
      "num_threads" :> JBool(TRUE),
      "prefetch" :> JNum(1) @@ "cache_max_ttl" :> JNum(59)
        @@ "access_control" :> JNull }

OptionsFiles ==
    { NoDoc,
      Doc("num_threads" :> JNum(8) @@ "ssl" :> JBool(FALSE)
            @@ "forward_servers" :> JArr(<< "1.1.1.1@853" >>)
            @@ "forward_tls" :> JBool(TRUE)),
      Doc("num_threads" :> JNum(64)) }

LogSizes == {LOG_MAX_SIZE, LOG_MAX_SIZE + 1}

(***************************************************************************)
(* Python str operations the lists use, computed character by character:   *)
(* Char(s, n) is s[n-1], the empty str is "".                              *)
(***************************************************************************)
Char(s, n) == SubSeq(s, n, n)

\* The printable ASCII characters in code-point order: " " (32) to "_" (95)
\* and "a" (97) to "~" (126).
AsciiLow ==
    " !\"#$%&'()*+,-./0123456789:;<=>?@ABCDEFGHIJKLMNOPQRSTUVWXYZ[\\]^_"
AsciiHigh == "abcdefghijklmnopqrstuvwxyz{|}~"

\* ord(c); the control characters in use come before all printable ones.
Ord ==
    [c \in {Char(AsciiLow, n) : n \in 1..Len(AsciiLow)}
            \cup {Char(AsciiHigh, n) : n \in 1..Len(AsciiHigh)} |->
        IF \E n \in 1..Len(AsciiLow) : Char(AsciiLow, n) = c
        THEN 31 + (CHOOSE n \in 1..Len(AsciiLow) : Char(AsciiLow, n) = c)
        ELSE 96 + (CHOOSE n \in 1..Len(AsciiHigh) : Char(AsciiHigh, n) = c)]
CodePoint(c) == IF c \in DOMAIN Ord THEN Ord[c] ELSE 0

\* str.isspace for the characters in use.
Whitespace == {" ", "\t", "\n", "\r"}

\* str.lower, one character: "A".."Z" map onto "a".."z".
LowerChar(c) ==
    IF CodePoint(c) >= Ord["A"] /\ CodePoint(c) <= Ord["Z"]
    THEN Char(AsciiHigh, CodePoint(c) - Ord["A"] + 1)
    ELSE c

RECURSIVE lower(_)
lower(s) == IF s = "" THEN "" ELSE LowerChar(Head(s)) \o lower(Tail(s))

\* str.strip(): drop the whitespace at both ends.
RECURSIVE lstrip(_)
lstrip(s) ==
    IF s # "" /\ Head(s) \in Whitespace THEN lstrip(Tail(s)) ELSE s

RECURSIVE rstrip(_)
rstrip(s) ==
    IF s # "" /\ Char(s, Len(s)) \in Whitespace
    THEN rstrip(SubSeq(s, 1, Len(s) - 1)) ELSE s

strip(s) == rstrip(lstrip(s))

\* str.split(): the maximal runs of non-whitespace, in order.
RECURSIVE SplitFrom(_, _, _)
SplitFrom(s, n, cur) ==
    IF n > Len(s) THEN (IF cur = "" THEN <<>> ELSE << cur >>)
    ELSE IF Char(s, n) \in Whitespace
         THEN (IF cur = "" THEN <<>> ELSE << cur >>) \o SplitFrom(s, n + 1, "")
         ELSE SplitFrom(s, n + 1, cur \o Char(s, n))

split(s) == SplitFrom(s, 1, "")

\* str.split("\n"): the pieces between newlines, empty ones included.
RECURSIVE SplitLinesFrom(_, _, _)
SplitLinesFrom(s, n, cur) ==
    IF n > Len(s) THEN << cur >>
    ELSE IF Char(s, n) = "\n" THEN << cur >> \o SplitLinesFrom(s, n + 1, "")
         ELSE SplitLinesFrom(s, n + 1, cur \o Char(s, n))

split_lines(s) == SplitLinesFrom(s, 1, "")

\* str.startswith
startswith(s, prefix) ==
    Len(s) >= Len(prefix) /\ SubSeq(s, 1, Len(prefix)) = prefix

\* a < b for str: the first differing character decides, a proper prefix
\* is smaller.
RECURSIVE StrLess(_, _)
StrLess(a, b) ==
    IF b = "" THEN FALSE
    ELSE IF a = "" THEN TRUE
    ELSE IF Head(a) = Head(b) THEN StrLess(Tail(a), Tail(b))
    ELSE CodePoint(Head(a)) < CodePoint(Head(b))

\* sorted(S) for a set of str.
RECURSIVE sorted(_)
sorted(S) ==
    IF S = {} THEN <<>>
    ELSE LET least == CHOOSE a \in S : \A b \in S \ {a} : StrLess(a, b)
         IN  << least >> \o sorted(S \ {least})

\* x in q for a list q.
InList(x, q) == \E n \in 1..Len(q) : q[n] = x

\* q after q.pop(n - 1).
Pop(q, n) == SubSeq(q, 1, n - 1) \o SubSeq(q, n + 1, Len(q))

\* The items of a list as a set.
SetOf(q) == {q[n] : n \in 1..Len(q)}

(***************************************************************************)
(* app.py: the files and constants of the lists.                           *)
(***************************************************************************)
BLOCKLISTS_FILE == "/data/blocklists.json"
BLOCKLIST_STATUS_FILE == "/data/blocklist_status.json"
WHITELIST_FILE == "/data/whitelist.json"
LOCAL_RECORDS_FILE == "/data/local_records.json"

_BLOCKLIST_SKIP_DOMAINS ==
    { "localhost", "localhost.localdomain", "local", "broadcasthost",
      "ip6-localhost", "ip6-loopback", "ip6-localnet",
      "ip6-mcastprefix", "ip6-allnodes", "ip6-allrouters", "ip6-allhosts" }

(***************************************************************************)
(* State of the lists.  A stored document is the JSON value json.load      *)
(* returns for it: a list of str, or for the status a mapping from URL to  *)
(* [domains, last_refresh, error].  A generated file is the sequence of    *)
(* its lines.                                                              *)
(***************************************************************************)
NoList == [exists |-> FALSE, doc |-> <<>>]
ListDoc(q) == [exists |-> TRUE, doc |-> q]

\* The threads that can run _do_blocklist_refresh: two request workers of
\* the server and the timer thread started at line 595.
Workers == {"w1", "w2"}
TimerThread == "timer"
Threads == Workers \cup {TimerThread}

\* The locals of a run of _do_blocklist_refresh; pc is the next statement
\* and met tells whether another run was in progress during this one.
\* An idle worker is waiting for a request, the idle timer thread sleeps.
NoRun ==
    [pc |-> "idle", blocklists |-> <<>>, whitelist |-> {}, status |-> <<>>,
     all_domains |-> {}, errors |-> <<>>, reload |-> "none", met |-> FALSE]

\* What a response carries; the fields a response lacks stay at their
\* empty value.
Response(status, error, key) ==
    [status |-> status, error |-> error, key |-> key, ip |-> "",
     domains_blocked |-> 0, errors |-> <<>>, reload_ok |-> FALSE]

\* A request without a JSON body.
NoJson == [k \in {} |-> ""]

\* The last request on the lists: the handler, the body or index it got,
\* its response and the reload it issued ("none" when it issued none).  For
\* an add or a remove, before holds the files of the lists as the handler
\* found them; for a refresh, what it read, what each fetch answered and the
\* stamp time.time() gave it.
BlStart ==
    [op |-> "start", data |-> NoJson, idx |-> 0, http |-> 0,
     body |-> Response("", "", ""), reload |-> "none", before |-> <<>>,
     blocklists |-> <<>>, whitelist |-> <<>>, fetched |-> <<>>, time |-> 0,
     overlapped |-> FALSE]

\* The timer thread: the ticks slept in the current sleep; whether an
\* unattended refresh has begun yet, the ticks since the last one began and
\* the ticks it took; for the last one begun, whether one came before it,
\* the ticks since that one began and the ticks that one took; the parity of
\* the number of wake-ups; the local blocklists of line 577.
TimerStart ==
    [slept |-> 0, began |-> FALSE, since |-> 0, took |-> 0,
     again |-> FALSE, gap |-> 0, prev_took |-> 0, parity |-> 0, seen |-> <<>>]

ListsAtStart ==
    /\ blocklists_file = NoList
    /\ whitelist_file = NoList
    /\ blocklist_status_file = NoList
    /\ blocklist_conf = NoText
    /\ local_records_file = NoList
    /\ local_records_conf = NoText
    /\ procs = [p \in Threads |-> NoRun]
    /\ timer = TimerStart
    /\ bl_last = BlStart

(***************************************************************************)
(* The record of the last operation.                                       *)
(***************************************************************************)
Accepted(l) ==
    /\ l.op = "api_config_put"
    /\ l.applied
    /\ ~l.raised
    /\ l.result["ok"].b

\* The live artifact is the rendering of what load() returns.
Consistent ==
    /\ unbound_conf.exists
    /\ unbound_conf.text = generate_unbound_conf(load_config)

\* The call of generate_unbound_conf before the last one, where calls are
\* compared: whether there was one, its argument and the text it returned.
NoCall == [called |-> FALSE, candidate |-> EmptyDict, content |-> <<>>]

\* The files an operation with outcome o leaves different from before.
Changed(o) ==
    (IF o.config_file # config_file THEN {"config_file"} ELSE {})
    \cup (IF o.unbound_conf # unbound_conf THEN {"unbound_conf"} ELSE {})
    \cup (IF o.query_log # query_log THEN {"query_log"} ELSE {})
    \cup (IF o.query_log_old # query_log_old THEN {"query_log_old"} ELSE {})
    \cup (IF o.daemon_conf # daemon_conf THEN {"daemon_conf"} ELSE {})

\* Besides what the operation did and returned, the record keeps what an
\* observer saw just before it: load(), whether the artifact was the
\* rendering of load(), and which files differ afterwards.
Last(op, applied, candidate, o, http) ==
    [op |-> op, applied |-> applied, candidate |-> candidate, steps |-> o.steps,
     check |-> o.check, reload |-> o.reload, content |-> o.content,
     result |-> o.result, raised |-> o.raised, errors |-> o.errors, http |-> http,
     load_before |-> load_config, consistent_before |-> Consistent,
     changed |-> Changed(o), prev |-> last.prev]

\* An operation that returns before touching anything, or touches only
\* what Outcome carries.
Idle(steps, result) ==
    Outcome(config_file, unbound_conf, << query_log, query_log_old >>, daemon_conf,
            steps, "none", "none", <<>>, result, FALSE)

Commit(o) ==
    /\ config_file' = o.config_file
    /\ unbound_conf' = o.unbound_conf
    /\ query_log' = o.query_log
    /\ query_log_old' = o.query_log_old
    /\ daemon_conf' = o.daemon_conf
    /\ UNCHANGED << options_file, list_vars >>

ConfigAtStart ==
    /\ config_file = NoDoc
    /\ options_file \in OptionsFiles
    /\ unbound_conf = NoText
    /\ query_log = NoLog
    /\ query_log_old = NoLog
    /\ daemon_conf = NoText
    /\ last = [op |-> "start", applied |-> FALSE, candidate |-> EmptyDict,
               steps |-> <<>>, check |-> "none", reload |-> "none",
               content |-> <<>>, result |-> EmptyDict, raised |-> FALSE,
               errors |-> <<>>, http |-> 0, load_before |-> _defaults,
               consistent_before |-> FALSE, changed |-> {}, prev |-> NoCall]

Init == ConfigAtStart /\ ListsAtStart

(***************************************************************************)
(* PUT /api/config: merge the body onto the loaded config and apply it.    *)
(***************************************************************************)
api_config_put(data, chk, rl, fs) ==
    IF DOMAIN data = {}
    THEN /\ Commit(Idle(<<>>, "ok" :> PyBool(FALSE) @@ "message" :> PyStr("No JSON body")))
         /\ last' = Last("api_config_put", FALSE, EmptyDict,
                         Idle(<<>>, "ok" :> PyBool(FALSE)
                                      @@ "message" :> PyStr("No JSON body")), 400)
    ELSE \E current \in {DictUpdate(load_config, json_load(data))} :
         \E o \in {apply_config(current, chk, rl, fs)} :
             /\ Commit(o)
             /\ last' = Last("api_config_put", TRUE, current, o,
                             IF o.raised THEN 500
                             ELSE IF o.result["ok"].b THEN 200 ELSE 400)

\* What the environment can answer during a call on new_config: a process
\* that is never started answers "none", a rotation that is not attempted
\* cannot fail.
ChecksOf(new_config) ==
    IF validate_config(new_config) = <<>> /\ ~RenderRaises(new_config)
    THEN ProcOutcomes ELSE {"none"}
ReloadsOf(chk) == IF chk = "ok" THEN ProcOutcomes ELSE {"none"}
RotationsOf(config) ==
    IF RotateLog(config, "ok") # << query_log, query_log_old >>
    THEN FsOutcomes ELSE {"ok"}

ApiConfigPut ==
    \E data \in PutBodies :
        \E current \in {DictUpdate(load_config, json_load(data))} :
            \E chk \in (IF DOMAIN data = {} THEN {"none"} ELSE ChecksOf(current)) :
            \E rl \in ReloadsOf(chk) :
            \E fs \in (IF chk = "none" THEN {"ok"} ELSE RotationsOf(current)) :
                api_config_put(data, chk, rl, fs)

(***************************************************************************)
(* config_gen.py --seed-if-needed                                          *)
(***************************************************************************)
seed_from_options ==
    IF config_file.exists
    THEN /\ Commit(Idle(<<>>, EmptyDict))
         /\ last' = Last("seed_from_options", FALSE, EmptyDict, Idle(<<>>, EmptyDict), 0)
    ELSE LET options == IF options_file.exists THEN json_load(options_file.doc)
                        ELSE EmptyDict
             config == [k \in SchemaKeys |->
                          IF k \in DOMAIN options THEN options[k] ELSE _defaults[k]]
         IN  \E o \in {[Idle(<< "save_config" >>, EmptyDict)
                           EXCEPT !.config_file = save_config(config)]} :
                /\ Commit(o)
                /\ last' = Last("seed_from_options", FALSE, config, o, 0)

SeedFromOptions == seed_from_options

(***************************************************************************)
(* config_gen.py --generate                                                *)
(***************************************************************************)
write_unbound_conf(fs) ==
    LET config == load_config
        logs == RotateLog(config, fs)
        content == generate_unbound_conf(config)
    IN  \E o \in {IF RenderRaises(config)
                   THEN [Idle(<< "load_config", "generate_unbound_conf" >>, EmptyDict)
                           EXCEPT !.query_log = logs[1], !.query_log_old = logs[2],
                                  !.raised = TRUE]
                   ELSE [Idle(<< "load_config", "generate_unbound_conf", "write_conf" >>,
                              EmptyDict)
                           EXCEPT !.query_log = logs[1], !.query_log_old = logs[2],
                                  !.unbound_conf = Text(content),
                                  !.content = content]} :
            /\ Commit(o)
            /\ last' = Last("write_unbound_conf", FALSE, config, o, 0)

WriteUnboundConf == \E fs \in RotationsOf(load_config) : write_unbound_conf(fs)

(***************************************************************************)
(* The daemon appends to the query log configured by the logfile           *)
(* directive; the file only grows until it is rotated.                     *)
(***************************************************************************)
DaemonLogsQueries ==
    /\ daemon_conf.exists
    /\ \E n \in 1..Len(daemon_conf.text) :
          daemon_conf.text[n] = "    logfile: \"" \o QUERY_LOG_FILE \o "\""

UnboundWritesLog ==
    /\ DaemonLogsQueries
    /\ \E n \in LogSizes :
          /\ query_log.exists => n > query_log.size
          /\ \E o \in {[Idle(<<>>, EmptyDict) EXCEPT !.query_log = Log(n)]} :
                /\ Commit(o)
                /\ last' = Last("unbound_writes_log", FALSE, EmptyDict, o, 0)

Next ==
    \/ ApiConfigPut
    \/ SeedFromOptions
    \/ WriteUnboundConf
    \/ UnboundWritesLog

Spec == Init /\ [][Next]_vars

(***************************************************************************)
(* validate_config on its own: calls on mappings that need not be          *)
(* complete, drawn from a base and per-key overrides.                      *)
(***************************************************************************)
ValidateBases == { EmptyDict, _defaults }
PrefetchChoices ==
    { EmptyDict, "prefetch" :> PyBool(FALSE), "prefetch" :> PyInt(1),
      "prefetch" :> PyNone }
ThreadChoices ==
    { EmptyDict, "num_threads" :> PyInt(1), "num_threads" :> PyInt(16),
      "num_threads" :> PyInt(0), "num_threads" :> PyInt(17),
      "num_threads" :> PyBool(TRUE) }
AccessChoices ==
    { EmptyDict, "access_control" :> PyList(<<>>),
      "access_control" :> PyStr("10.0.0.0/8") }
ExtraChoices == { EmptyDict, "note" :> PyInt(99) }

ValidateInputs ==
    { DictUpdate(DictUpdate(DictUpdate(DictUpdate(base, p), n), a), x) :
        base \in ValidateBases, p \in PrefetchChoices, n \in ThreadChoices,
        a \in AccessChoices, x \in ExtraChoices }

ValidateCall ==
    /\ \E config \in ValidateInputs :
         \E errors \in {validate_config(config)} :
            last' = Last("validate_config", FALSE, config,
                         [Idle(<< "validate_config" >>, EmptyDict)
                            EXCEPT !.errors = errors], 0)
    /\ UNCHANGED << config_file, options_file, unbound_conf, query_log,
                    query_log_old, daemon_conf, list_vars >>

NextValidate == ValidateCall

SpecValidate == Init /\ [][NextValidate]_vars

(***************************************************************************)
(* generate_unbound_conf on its own: calls on Configurations, the defaults *)
(* with one or two fields changed, while the query log grows between the   *)
(* calls.                                                                  *)
(***************************************************************************)
RenderChanges ==
    { EmptyDict,
      "num_threads" :> PyInt(4),
      "log_queries" :> PyBool(TRUE),
      "enable_dnssec" :> PyBool(FALSE),
      "forward_tls" :> PyBool(TRUE),
      "forward_servers" :> PyList(<< "1.1.1.1@853", "9.9.9.9@853" >>),
      "access_control" :> PyList(<< "192.168.0.0/16" >>),
      "log_queries" :> PyBool(TRUE) @@ "verbosity" :> PyInt(2),
      "forward_servers" :> PyList(<< "1.1.1.1@853" >>) @@ "forward_tls" :> PyBool(TRUE) }

RenderInputs == { DictUpdate(_defaults, c) : c \in RenderChanges }

RenderCall(config, fs) ==
    \E o \in {[Idle(<< "generate_unbound_conf" >>, EmptyDict)
                  EXCEPT !.query_log = RotateLog(config, fs)[1],
                         !.query_log_old = RotateLog(config, fs)[2],
                         !.content = generate_unbound_conf(config)]} :
        /\ Commit(o)
        /\ last' = [Last("generate_unbound_conf", FALSE, config, o, 0)
                      EXCEPT !.prev = [called |-> last.op = "generate_unbound_conf",
                                       candidate |-> last.candidate,
                                       content |-> last.content]]

GenerateUnboundConf ==
    \E config \in RenderInputs : \E fs \in RotationsOf(config) : RenderCall(config, fs)

\* The daemon writes to the query log between two calls.
QueryLogGrows ==
    /\ \E n \in LogSizes :
          /\ query_log.exists => n > query_log.size
          /\ query_log' = Log(n)
    /\ UNCHANGED << config_file, options_file, unbound_conf, query_log_old,
                    daemon_conf, last, list_vars >>

NextRender == GenerateUnboundConf \/ QueryLogGrows

InitRender == Init /\ options_file = NoDoc

SpecRender == InitRender /\ [][NextRender]_vars

(***************************************************************************)
(* app.py: the JSON helpers of the lists.                                  *)
(***************************************************************************)
LoadList(file) == IF file.exists THEN file.doc ELSE <<>>

load_blocklists == LoadList(blocklists_file)
save_blocklists(blocklists) == ListDoc(blocklists)

load_blocklist_status ==
    IF blocklist_status_file.exists THEN blocklist_status_file.doc ELSE EmptyDict
save_blocklist_status(status) == ListDoc(status)

load_whitelist == LoadList(whitelist_file)
save_whitelist(whitelist) == ListDoc(whitelist)

load_local_records == LoadList(local_records_file)
save_local_records(records) == ListDoc(records)

\* write_local_records_conf: two directives per record, in list order.
RECURSIVE LocalRecordLines(_)
LocalRecordLines(records) ==
    IF records = <<>> THEN <<>>
    ELSE << "local-zone: \"" \o Head(records).hostname \o ".\" redirect",
            "local-data: \"" \o Head(records).hostname \o ". A "
                \o Head(records).ip \o "\"" >>
         \o LocalRecordLines(Tail(records))

write_local_records_conf(records) == Text(LocalRecordLines(records))

\* run_unbound_control(cmd): <<output, ok>> for each way subprocess.run ends.
run_unbound_control(cmd, answer) ==
    CASE answer = "ok" -> << "ok\n", TRUE >>
      [] answer = "nonzero" -> << "", FALSE >>
      [] answer = "timeout" ->
            << "Command '['unbound-control', '" \o cmd \o "']' timed out after 5 seconds",
               FALSE >>
      [] OTHER -> << "[Errno 2] No such file or directory: 'unbound-control'", FALSE >>

(***************************************************************************)
(* What the network serves.  curl either exits 0 with the body on stdout,  *)
(* exits non-zero with a message on stderr, or subprocess.run raises.      *)
(***************************************************************************)
URL_A == "https://a.example/hosts"
URL_B == "https://b.example/hosts.txt"
URL_C == "https://c.example/list"
KnownUrls == {URL_A, URL_B, URL_C}

Hosted(url) ==
    CASE url = URL_A ->
            "# Title: ads\n127.0.0.1 localhost\n0.0.0.0 x.com\n0.0.0.0 Y.com"
      [] url = URL_B ->
            "0.0.0.0 LocalHost.LocalDomain\r\n0.0.0.0\tX.COM\r\nx.org\n0.0.0.0\n\n"
      [] url = URL_C ->
            "0.0.0.0 y.com\n 0.0.0.0 z.com # tail\n0.0.0.0 Broadcasthost\n127.0.0.1 IP6-allnodes\n"
      [] OTHER -> ""

FetchAnswers == {"ok", "nonzero", "timeout", "notfound"}

\* The outcome of subprocess.run(["curl", "-sS", "--max-time", "30", url], ...).
curl(url, answer) ==
    CASE answer = "ok" ->
            [raised |-> FALSE, exc |-> "", returncode |-> 0,
             stdout |-> Hosted(url), stderr |-> ""]
      [] answer = "nonzero" ->
            [raised |-> FALSE, exc |-> "", returncode |-> 6, stdout |-> "",
             stderr |-> "curl: (6) Could not resolve host\n"]
      [] answer = "timeout" ->
            [raised |-> TRUE,
             exc |-> "Command '['curl', '-sS', '--max-time', '30', '" \o url
                        \o "']' timed out after 35 seconds",
             returncode |-> 0, stdout |-> "", stderr |-> ""]
      [] OTHER ->
            [raised |-> TRUE, exc |-> "[Errno 2] No such file or directory: 'curl'",
             returncode |-> 0, stdout |-> "", stderr |-> ""]

(***************************************************************************)
(* _do_blocklist_refresh, statement by statement.                          *)
(***************************************************************************)
\* A variant that looks the name up before lower-casing it.
ParseLine_SkipBeforeLower(raw) ==
    LET line == strip(raw)
    IN  IF line = "" \/ startswith(line, "#") THEN {}
        ELSE LET parts == split(line)
             IN  IF Len(parts) >= 2 /\ parts[1] \in {"0.0.0.0", "127.0.0.1"}
                 THEN LET domain == strip(parts[2])
                      IN  IF domain # "" /\ domain \notin _BLOCKLIST_SKIP_DOMAINS
                          THEN {lower(domain)} ELSE {}
                 ELSE {}

\* Lines 316-323: the domain a line of a host file contributes, if any.
ParseLine(raw) ==
    LET line == strip(raw)
    IN  IF line = "" \/ startswith(line, "#") THEN {}
        ELSE LET parts == split(line)
             IN  IF Len(parts) >= 2 /\ parts[1] \in {"0.0.0.0", "127.0.0.1"}
                 THEN LET domain == lower(strip(parts[2]))
                      IN  IF domain # "" /\ domain \notin _BLOCKLIST_SKIP_DOMAINS
                          THEN {domain} ELSE {}
                 ELSE {}

\* Lines 315-323: url_domains for the body of one source.
ParseBody(stdout) ==
    LET lines == split_lines(stdout)
    IN  UNION {ParseLine(lines[n]) : n \in 1..Len(lines)}

\* The same, computed once for each body the network serves.
ParsedBodies == [stdout \in {Hosted(url) : url \in KnownUrls} |-> ParseBody(stdout)]

ParseHosts(stdout) ==
    IF stdout \in DOMAIN ParsedBodies THEN ParsedBodies[stdout] ELSE ParseBody(stdout)

StatusEntry(domains, time, error) ==
    [domains |-> domains, last_refresh |-> time, error |-> error]

\* A variant whose except clause only skips the source.
FetchOne_SilentOnException(run, url, out, time) ==
    IF out.raised THEN run
    ELSE IF out.returncode # 0
    THEN [run EXCEPT
            !.errors = Append(@, [url |-> url, error |-> out.stderr]),
            !.status = DictUpdate(@, url :> StatusEntry(0, time, PyStr(strip(out.stderr))))]
    ELSE LET url_domains == ParseHosts(out.stdout)
         IN  [run EXCEPT
                !.all_domains = @ \cup url_domains,
                !.status = DictUpdate(@, url :> StatusEntry(Cardinality(url_domains),
                                                            time, PyNone))]

\* Lines 300-337: one pass of the loop body, on the locals in run.
FetchOne(run, url, out, time) ==
    IF out.raised
    THEN [run EXCEPT
            !.errors = Append(@, [url |-> url, error |-> out.exc]),
            !.status = DictUpdate(@, url :> StatusEntry(0, time, PyStr(out.exc)))]
    ELSE IF out.returncode # 0
    THEN [run EXCEPT
            !.errors = Append(@, [url |-> url, error |-> out.stderr]),
            !.status = DictUpdate(@, url :> StatusEntry(0, time, PyStr(strip(out.stderr))))]
    ELSE LET url_domains == ParseHosts(out.stdout)
         IN  [run EXCEPT
                !.all_domains = @ \cup url_domains,
                !.status = DictUpdate(@, url :> StatusEntry(Cardinality(url_domains),
                                                            time, PyNone))]

\* Lines 299-337: the loop over blocklists from position n on; answers[n]
\* is what the n-th fetch meets.
RECURSIVE FetchLoop(_, _, _, _)
FetchLoop(run, n, answers, time) ==
    IF n > Len(run.blocklists) THEN run
    ELSE FetchLoop(FetchOne(run, run.blocklists[n],
                            curl(run.blocklists[n], answers[n]), time),
                   n + 1, answers, time)

\* Lines 292-297: the reads and the empty accumulators.
RefreshReads(blocklists, whitelist, status) ==
    [NoRun EXCEPT !.blocklists = blocklists,
                  !.whitelist = {lower(whitelist[n]) : n \in 1..Len(whitelist)},
                  !.status = status]

\* A variant that leaves the whitelisted domains in.
SubtractWhitelist_Skipped(run) == run

\* Line 342.
SubtractWhitelist(run) == [run EXCEPT !.all_domains = @ \ run.whitelist]

\* Lines 345-347: the policy file, one directive per domain in sorted order.
BlocklistConfLines(all_domains) ==
    LET domains == sorted(all_domains)
    IN  [n \in 1..Len(domains) |-> "local-zone: \"" \o domains[n] \o ".\" always_refuse"]

\* Lines 352-357.
RefreshResult(run, reload_ok) ==
    [Response("refreshed", "", "") EXCEPT
        !.domains_blocked = Cardinality(run.all_domains),
        !.errors = run.errors,
        !.reload_ok = reload_ok]

(***************************************************************************)
(* The handlers of the lists as functions of what they load and receive:   *)
(* the response, and the documents to save when save is TRUE.              *)
(***************************************************************************)
Reply(http, body, save, doc) == [http |-> http, body |-> body, save |-> save, doc |-> doc]

\* A variant that looks the URL up as submitted and stores it trimmed.
blocklists_add_RawLookup(blocklists, data) ==
    IF DOMAIN data = {} \/ "url" \notin DOMAIN data
    THEN Reply(400, Response("", "Missing 'url' field", ""), FALSE, blocklists)
    ELSE LET url == strip(data["url"])
         IN  IF url = ""
             THEN Reply(400, Response("", "URL cannot be empty", ""), FALSE, blocklists)
             ELSE IF InList(data["url"], blocklists)
             THEN Reply(409, Response("", "URL already exists", ""), FALSE, blocklists)
             ELSE Reply(201, Response("added", "", url), TRUE, Append(blocklists, url))

\* POST /api/blocklists
blocklists_add(blocklists, data) ==
    IF DOMAIN data = {} \/ "url" \notin DOMAIN data
    THEN Reply(400, Response("", "Missing 'url' field", ""), FALSE, blocklists)
    ELSE LET url == strip(data["url"])
         IN  IF url = ""
             THEN Reply(400, Response("", "URL cannot be empty", ""), FALSE, blocklists)
             ELSE IF InList(url, blocklists)
             THEN Reply(409, Response("", "URL already exists", ""), FALSE, blocklists)
             ELSE Reply(201, Response("added", "", url), TRUE, Append(blocklists, url))

\* DELETE /api/blocklists/<idx>, lines 275-280: the list part.
blocklists_remove(blocklists, idx) ==
    IF idx < 0 \/ idx >= Len(blocklists)
    THEN Reply(404, Response("", "Invalid index", ""), FALSE, blocklists)
    ELSE Reply(200, Response("removed", "", blocklists[idx + 1]), TRUE,
               Pop(blocklists, idx + 1))

\* A variant that leaves the status as loaded.
StatusPop_KeepsEntry(status, removed) == status

\* Lines 283-285: status.pop(removed, None).
StatusPop(status, removed) == [k \in (DOMAIN status) \ {removed} |-> status[k]]

\* POST /api/whitelist
whitelist_add(whitelist, data) ==
    IF DOMAIN data = {} \/ "domain" \notin DOMAIN data
    THEN Reply(400, Response("", "Missing 'domain' field", ""), FALSE, whitelist)
    ELSE LET domain == lower(strip(data["domain"]))
         IN  IF domain = ""
             THEN Reply(400, Response("", "Domain cannot be empty", ""), FALSE, whitelist)
             ELSE IF InList(domain, whitelist)
             THEN Reply(409, Response("", "Domain already whitelisted", ""), FALSE, whitelist)
             ELSE Reply(201, Response("added", "", domain), TRUE, Append(whitelist, domain))

\* A variant without the idx < 0 test: list.pop(-1) takes the last item.
whitelist_remove_NegativePops(whitelist, idx) ==
    IF idx >= Len(whitelist) \/ -idx > Len(whitelist)
    THEN Reply(404, Response("", "Invalid index", ""), FALSE, whitelist)
    ELSE LET n == IF idx < 0 THEN Len(whitelist) + idx + 1 ELSE idx + 1
         IN  Reply(200, Response("removed", "", whitelist[n]), TRUE, Pop(whitelist, n))

\* DELETE /api/whitelist/<idx>
whitelist_remove(whitelist, idx) ==
    IF idx < 0 \/ idx >= Len(whitelist)
    THEN Reply(404, Response("", "Invalid index", ""), FALSE, whitelist)
    ELSE Reply(200, Response("removed", "", whitelist[idx + 1]), TRUE,
               Pop(whitelist, idx + 1))

\* A variant that compares the hostname as submitted, trimmed only.
local_records_add_RawCompare(records, data) ==
    IF DOMAIN data = {} \/ "hostname" \notin DOMAIN data \/ "ip" \notin DOMAIN data
    THEN Reply(400, Response("", "Missing 'hostname' and/or 'ip' field", ""), FALSE, records)
    ELSE LET hostname == lower(strip(data["hostname"]))
             ip == strip(data["ip"])
         IN  IF hostname = "" \/ ip = ""
             THEN Reply(400, Response("", "Hostname and IP cannot be empty", ""),
                        FALSE, records)
             ELSE IF \E n \in 1..Len(records) : records[n].hostname = strip(data["hostname"])
             THEN Reply(409, Response("", "Hostname already exists", ""), FALSE, records)
             ELSE Reply(201, [Response("added", "", hostname) EXCEPT !.ip = ip], TRUE,
                        Append(records, [hostname |-> hostname, ip |-> ip]))

\* POST /api/local-records, lines 417-433.
local_records_add(records, data) ==
    IF DOMAIN data = {} \/ "hostname" \notin DOMAIN data \/ "ip" \notin DOMAIN data
    THEN Reply(400, Response("", "Missing 'hostname' and/or 'ip' field", ""), FALSE, records)
    ELSE LET hostname == lower(strip(data["hostname"]))
             ip == strip(data["ip"])
         IN  IF hostname = "" \/ ip = ""
             THEN Reply(400, Response("", "Hostname and IP cannot be empty", ""),
                        FALSE, records)
             ELSE IF \E n \in 1..Len(records) : records[n].hostname = hostname
             THEN Reply(409, Response("", "Hostname already exists", ""), FALSE, records)
             ELSE Reply(201, [Response("added", "", hostname) EXCEPT !.ip = ip], TRUE,
                        Append(records, [hostname |-> hostname, ip |-> ip]))

\* DELETE /api/local-records/<idx>, lines 449-453.
local_records_remove(records, idx) ==
    IF idx < 0 \/ idx >= Len(records)
    THEN Reply(404, Response("", "Invalid index", ""), FALSE, records)
    ELSE Reply(200, Response("removed", "", records[idx + 1].hostname), TRUE,
               Pop(records, idx + 1))

(***************************************************************************)
(* Requests on the lists, each handled from start to end.                  *)
(***************************************************************************)
Request(op, data, idx, r, reload) ==
    [BlStart EXCEPT !.op = op, !.data = data, !.idx = idx, !.http = r.http,
                    !.body = r.body, !.reload = reload, !.before = list_files]

api_blocklists_add(data) ==
    \E r \in {blocklists_add(load_blocklists, data)} :
        /\ blocklists_file' = IF r.save THEN save_blocklists(r.doc) ELSE blocklists_file
        /\ bl_last' = Request("api_blocklists_add", data, 0, r, "none")
        /\ UNCHANGED << whitelist_file, blocklist_status_file, blocklist_conf,
                        local_records_file, local_records_conf >>

api_blocklists_remove(idx) ==
    \E r \in {blocklists_remove(load_blocklists, idx)} :
        /\ blocklists_file' = IF r.save THEN save_blocklists(r.doc) ELSE blocklists_file
        /\ blocklist_status_file' =
              IF r.save
              THEN save_blocklist_status(StatusPop(load_blocklist_status, r.body.key))
              ELSE blocklist_status_file
        /\ bl_last' = Request("api_blocklists_remove", NoJson, idx, r, "none")
        /\ UNCHANGED << whitelist_file, blocklist_conf, local_records_file,
                        local_records_conf >>

\* A variant that takes the new domain out of the policy file at once.
api_whitelist_add_Rerenders(data) ==
    \E r \in {whitelist_add(load_whitelist, data)} :
        /\ whitelist_file' = IF r.save THEN save_whitelist(r.doc) ELSE whitelist_file
        /\ blocklist_conf' =
              IF r.save /\ blocklist_conf.exists
              THEN Text(SelectSeq(blocklist_conf.text,
                                  LAMBDA line :
                                     line # "local-zone: \"" \o r.body.key
                                               \o ".\" always_refuse"))
              ELSE blocklist_conf
        /\ bl_last' = Request("api_whitelist_add", data, 0, r, "none")
        /\ UNCHANGED << blocklists_file, blocklist_status_file, local_records_file,
                        local_records_conf >>

api_whitelist_add(data) ==
    \E r \in {whitelist_add(load_whitelist, data)} :
        /\ whitelist_file' = IF r.save THEN save_whitelist(r.doc) ELSE whitelist_file
        /\ bl_last' = Request("api_whitelist_add", data, 0, r, "none")
        /\ UNCHANGED << blocklists_file, blocklist_status_file, blocklist_conf,
                        local_records_file, local_records_conf >>

api_whitelist_remove(idx) ==
    \E r \in {whitelist_remove(load_whitelist, idx)} :
        /\ whitelist_file' = IF r.save THEN save_whitelist(r.doc) ELSE whitelist_file
        /\ bl_last' = Request("api_whitelist_remove", NoJson, idx, r, "none")
        /\ UNCHANGED << blocklists_file, blocklist_status_file, blocklist_conf,
                        local_records_file, local_records_conf >>

\* Lines 434-443 and 454-462: save, regenerate, reload, respond.
LocalRecordsCommit(op, data, idx, r, answer) ==
    /\ local_records_file' = IF r.save THEN save_local_records(r.doc)
                             ELSE local_records_file
    /\ local_records_conf' = IF r.save THEN write_local_records_conf(r.doc)
                             ELSE local_records_conf
    /\ bl_last' =
          IF r.save
          THEN Request(op, data, idx,
                       [r EXCEPT !.body.reload_ok = run_unbound_control("reload", answer)[2]],
                       answer)
          ELSE Request(op, data, idx, r, "none")
    /\ UNCHANGED << blocklists_file, whitelist_file, blocklist_status_file,
                    blocklist_conf >>

api_local_records_add(data, answer) ==
    LocalRecordsCommit("api_local_records_add", data, 0,
                       local_records_add(load_local_records, data), answer)

api_local_records_remove(idx, answer) ==
    LocalRecordsCommit("api_local_records_remove", NoJson, idx,
                       local_records_remove(load_local_records, idx), answer)

\* time.time() during a refresh that loaded status.  Stamps are only ever
\* compared for equality and the clock never returns one that is already
\* on disk: the least number not in use stands for the present.
time_time(status) ==
    CHOOSE t \in 0..Cardinality(DOMAIN status) :
        /\ \A url \in DOMAIN status : status[url].last_refresh # t
        /\ \A e \in 0..(t - 1) : \E url \in DOMAIN status : status[url].last_refresh = e

\* _do_blocklist_refresh run from start to end: the locals after line 342.
do_blocklist_refresh(answers) ==
    SubtractWhitelist(
        FetchLoop(RefreshReads(load_blocklists, load_whitelist, load_blocklist_status),
                  1, answers, time_time(load_blocklist_status)))

\* POST /api/blocklists/refresh: lines 339-357 on the locals run that
\* lines 292-337 and 342 leave, then the response.
api_blocklists_refresh(run, answers, answer) ==
    /\ blocklist_status_file' = save_blocklist_status(run.status)
    /\ blocklist_conf' = Text(BlocklistConfLines(run.all_domains))
    /\ bl_last' = [BlStart EXCEPT
                      !.op = "api_blocklists_refresh", !.http = 200,
                      !.body = RefreshResult(run, run_unbound_control("reload", answer)[2]),
                      !.reload = answer, !.blocklists = load_blocklists,
                      !.whitelist = load_whitelist, !.fetched = answers,
                      !.time = time_time(load_blocklist_status)]
    /\ UNCHANGED << blocklists_file, whitelist_file, local_records_file,
                    local_records_conf >>

(***************************************************************************)
(* Inputs of the requests on the lists.                                    *)
(***************************************************************************)
UrlBodies ==
    { NoJson, "uri" :> URL_A, "url" :> " \t ",
      "url" :> URL_A, "url" :> ("  " \o URL_A \o "\n"), "url" :> URL_B, "url" :> URL_C }

DomainBodies ==
    { NoJson, "name" :> "y.com", "domain" :> "",
      "domain" :> "y.com", "domain" :> " Y.Com ", "domain" :> "z.com" }

RecordBodies ==
    { NoJson, "hostname" :> "nas.lan",
      "hostname" :> "nas.lan" @@ "ip" :> " ",
      "hostname" :> "nas.lan" @@ "ip" :> "192.168.1.10",
      "hostname" :> " NAS.Lan" @@ "ip" :> "192.168.1.11" }

\* The indices a DELETE may carry for a list q: every valid one, -1 and
\* the two just past the end.
IndicesFor(q) == -1 .. (Len(q) + 1)

ReloadAnswers == ProcOutcomes

ListsOnly == UNCHANGED << config_vars, procs, timer >>

\* The requests, for bodies drawn from a set and for the answers the
\* fetches and the reload may meet.
BlocklistsAddFrom(bodies) ==
    /\ \E data \in bodies : api_blocklists_add(data)
    /\ ListsOnly

ApiBlocklistsRemove ==
    /\ \E idx \in IndicesFor(load_blocklists) : api_blocklists_remove(idx)
    /\ ListsOnly

RefreshUnder(kinds, reloads) ==
    /\ \E answers \in [1..Len(load_blocklists) -> kinds] :
          \E run \in {do_blocklist_refresh(answers)} :
             \E answer \in reloads : api_blocklists_refresh(run, answers, answer)
    /\ ListsOnly

WhitelistAddFrom(bodies) ==
    /\ \E data \in bodies : api_whitelist_add(data)
    /\ ListsOnly

ApiWhitelistRemove ==
    /\ \E idx \in IndicesFor(load_whitelist) : api_whitelist_remove(idx)
    /\ ListsOnly

LocalRecordsAddFrom(bodies, reloads) ==
    /\ \E data \in bodies :
          \E answer \in (IF local_records_add(load_local_records, data).save
                         THEN reloads ELSE {"none"}) :
             api_local_records_add(data, answer)
    /\ ListsOnly

LocalRecordsRemoveUnder(reloads) ==
    /\ \E idx \in IndicesFor(load_local_records) :
          \E answer \in (IF local_records_remove(load_local_records, idx).save
                         THEN reloads ELSE {"none"}) :
             api_local_records_remove(idx, answer)
    /\ ListsOnly

ApiBlocklistsAdd == BlocklistsAddFrom(UrlBodies)
ApiBlocklistsRefresh == RefreshUnder(FetchAnswers, ReloadAnswers)
ApiWhitelistAdd == WhitelistAddFrom(DomainBodies)
ApiLocalRecordsAdd == LocalRecordsAddFrom(RecordBodies, ReloadAnswers)
ApiLocalRecordsRemove == LocalRecordsRemoveUnder(ReloadAnswers)

InitLists == Init /\ options_file = NoDoc

(***************************************************************************)
(* The source list and its status: add, remove and refresh requests, one   *)
(* after the other.  The whitelist stays empty.                            *)
(***************************************************************************)
RefreshSources == RefreshUnder({"ok", "nonzero"}, {"ok", "timeout"})

NextBlocklist ==
    \/ ApiBlocklistsAdd
    \/ ApiBlocklistsRemove
    \/ RefreshSources

SpecBlocklist == InitLists /\ [][NextBlocklist]_vars

(***************************************************************************)
(* The three lists together: every add and remove request, and refreshes   *)
(* whose fetches and reload succeed.                                       *)
(***************************************************************************)
FewUrlBodies ==
    { NoJson, "url" :> URL_A, "url" :> ("  " \o URL_A \o "\n"), "url" :> URL_B }
FewDomainBodies == { "name" :> "y.com", "domain" :> "y.com", "domain" :> " Y.Com " }
FewRecordBodies ==
    { "hostname" :> "nas.lan",
      "hostname" :> "nas.lan" @@ "ip" :> "192.168.1.10",
      "hostname" :> " NAS.Lan" @@ "ip" :> "192.168.1.11",
      "hostname" :> "tv.lan" @@ "ip" :> " 192.168.1.12 " }

AddSource == BlocklistsAddFrom(FewUrlBodies)
RefreshFetched == RefreshUnder({"ok"}, {"ok"})
AddWhitelisted == WhitelistAddFrom(FewDomainBodies)
AddLocalRecord == LocalRecordsAddFrom(FewRecordBodies, {"ok", "nonzero"})
RemoveLocalRecord == LocalRecordsRemoveUnder({"ok", "nonzero"})

NextLists ==
    \/ AddSource
    \/ ApiBlocklistsRemove
    \/ RefreshFetched
    \/ AddWhitelisted
    \/ ApiWhitelistRemove
    \/ AddLocalRecord
    \/ RemoveLocalRecord

SpecLists == InitLists /\ [][NextLists]_vars

(***************************************************************************)
(* Refresh on its own: the sources and the whitelist are as earlier        *)
(* requests left them, and refresh is requested again and again.           *)
(***************************************************************************)
StoredSources ==
    { <<>>, << URL_A >>, << URL_B >>, << URL_C >>, << URL_A, URL_B >>, << URL_C, URL_A >>,
      << URL_A, URL_B, URL_C >>, << URL_C, URL_B, URL_A >> }
StoredWhitelists == { <<>>, << "y.com" >>, << "x.com", "y.com" >>, << "q.net" >> }

InitRefresh ==
    /\ ConfigAtStart
    /\ options_file = NoDoc
    /\ blocklists_file \in {ListDoc(q) : q \in StoredSources}
    /\ whitelist_file \in {ListDoc(q) : q \in StoredWhitelists}
    /\ blocklist_status_file = NoList
    /\ blocklist_conf = NoText
    /\ local_records_file = NoList
    /\ local_records_conf = NoText
    /\ procs = [p \in Threads |-> NoRun]
    /\ timer = TimerStart
    /\ bl_last = BlStart

NextRefresh == ApiBlocklistsRefresh

SpecRefresh == InitRefresh /\ [][NextRefresh]_vars

(***************************************************************************)
(* GET /api/stats.  A float is held as an exact fraction [n, d] with        *)
(* d > 0; the inputs in use are such that the float arithmetic and round() *)
(* of the code agree with exact arithmetic and rounding half to even.  A   *)
(* value rounded to one decimal is held as its number of tenths.           *)
(***************************************************************************)
Fraction(n, d) == [n |-> n, d |-> d, raised |-> FALSE]
ZeroDivisionError == [n |-> 0, d |-> 1, raised |-> TRUE]

RECURSIVE FindChar(_, _, _)
FindChar(s, c, n) ==
    IF n > Len(s) THEN 0
    ELSE IF Char(s, n) = c THEN n
    ELSE FindChar(s, c, n + 1)

RECURSIVE DigitsValue(_)
DigitsValue(s) ==
    IF s = "" THEN 0
    ELSE DigitsValue(SubSeq(s, 1, Len(s) - 1)) * 10 + (CodePoint(Char(s, Len(s))) - 48)

RECURSIVE TenTo(_)
TenTo(k) == IF k = 0 THEN 1 ELSE 10 * TenTo(k - 1)

\* float(s) for a str of digits with an optional fraction part.
float(s) ==
    LET dot == FindChar(s, ".", 1)
    IN  IF dot = 0 THEN Fraction(DigitsValue(s), 1)
        ELSE Fraction(DigitsValue(SubSeq(s, 1, dot - 1) \o SubSeq(s, dot + 1, Len(s))),
                      TenTo(Len(s) - dot))

\* float(stats.get(key, 0))
FloatGet(stats, key) == IF key \in DOMAIN stats THEN float(stats[key]) ELSE Fraction(0, 1)

\* a / b, which raises when b is 0.
TrueDiv(a, b) ==
    IF a.raised \/ b.raised \/ b.n = 0 THEN ZeroDivisionError
    ELSE Fraction(a.n * b.d, a.d * b.n)

Times(a, k) == IF a.raised THEN a ELSE Fraction(a.n * k, a.d)

\* int(x) for x >= 0.
int(x) == x.n \div x.d

\* round(x, 1) for x >= 0, in tenths: the nearest, a tie going to the even.
round1(x) ==
    LET whole == (10 * x.n) \div x.d
        rest == (10 * x.n) % x.d
    IN  IF 2 * rest > x.d \/ (2 * rest = x.d /\ whole % 2 = 1) THEN whole + 1 ELSE whole

\* parse_stats, lines 145-152.
RECURSIVE ParseStatsLines(_, _)
ParseStatsLines(lines, stats) ==
    IF lines = <<>> THEN stats
    ELSE LET line == Head(lines)
             eq == FindChar(line, "=", 1)
         IN  ParseStatsLines(
                Tail(lines),
                IF eq = 0 THEN stats
                ELSE (strip(SubSeq(line, 1, eq - 1)) :> strip(SubSeq(line, eq + 1, Len(line))))
                        @@ stats)

NoStats == [k \in {} |-> ""]

parse_stats(raw_stats) == ParseStatsLines(split_lines(strip(raw_stats)), NoStats)

\* A variant whose guard lets a total of 0 through.
hit_rate_GuardsNegative(cache_hits, total_queries) ==
    IF total_queries.n >= 0 THEN Times(TrueDiv(cache_hits, total_queries), 100)
    ELSE Fraction(0, 1)

\* Line 176.
hit_rate(cache_hits, total_queries) ==
    IF total_queries.n > 0 THEN Times(TrueDiv(cache_hits, total_queries), 100)
    ELSE Fraction(0, 1)

\* Line 185, without the rounding.
queries_per_sec(total_queries, uptime) ==
    IF uptime.n > 0 THEN TrueDiv(total_queries, uptime) ELSE Fraction(0, 1)

\* Lines 171-185 and the fields of the response they fill.
StatsResponse(stats) ==
    LET total_queries == FloatGet(stats, "total.num.queries")
        cache_hits == FloatGet(stats, "total.num.cachehits")
        uptime == FloatGet(stats, "time.up")
        rate == hit_rate(cache_hits, total_queries)
        qps == queries_per_sec(total_queries, uptime)
    IN  [raised |-> rate.raised \/ qps.raised,
         total_queries |-> int(total_queries),
         cache_hits |-> int(cache_hits),
         cache_hit_rate |-> IF rate.raised THEN 0 ELSE round1(rate),
         queries_per_sec |-> IF qps.raised THEN 0 ELSE round1(qps)]

NoStatsResponse ==
    [raised |-> FALSE, total_queries |-> 0, cache_hits |-> 0, cache_hit_rate |-> 0,
     queries_per_sec |-> 0]

\* What unbound-control stats_noreset prints: a line per metric, each of
\* the three metrics present or not, and a line that is no metric.
TotalLines ==
    { "", "total.num.queries=0\n", "total.num.queries=1\n", "total.num.queries = 3\n",
      "total.num.queries=8\n", "total.num.queries=0.0\n" }
HitLines ==
    { "", "total.num.cachehits=0\n", "total.num.cachehits=1\n", "total.num.cachehits=3\n" }
UptimeLines ==
    { "", "time.up=0\n", "time.up=0.000000\n", "time.up=4.000000\n", "time.up=3\n",
      "time.up=2.5\n" }
StatsOutputs ==
    { t \o h \o "histogram\n" \o u :
        t \in TotalLines, h \in HitLines, u \in UptimeLines }

\* GET /api/stats, lines 167-230.
api_stats(raw, answer) ==
    /\ bl_last' =
          IF ~run_unbound_control("stats_noreset", answer)[2]
          THEN [BlStart EXCEPT !.op = "api_stats", !.http = 500, !.reload = answer,
                               !.data = NoStats, !.body = NoStatsResponse]
          ELSE [BlStart EXCEPT !.op = "api_stats",
                               !.reload = answer,
                               !.data = parse_stats(raw),
                               !.body = StatsResponse(parse_stats(raw)),
                               !.http = IF StatsResponse(parse_stats(raw)).raised
                                        THEN 500 ELSE 200]
    /\ UNCHANGED << config_vars, list_files, procs, timer >>

ApiStats ==
    \E answer \in ProcOutcomes :
       \E raw \in (IF answer = "ok" THEN StatsOutputs ELSE {""}) : api_stats(raw, answer)

NextStats == ApiStats

SpecStats == InitLists /\ [][NextStats]_vars

(***************************************************************************)
(* The threads.  A worker serves POST /api/blocklists/refresh and the      *)
(* timer thread runs _blocklist_auto_refresh; both execute                 *)
(* _do_blocklist_refresh statement by statement, so that the reads and     *)
(* writes of one run interleave with those of another run and with the     *)
(* other requests.  The fetch loop touches no shared state and is one step *)
(* together with the read before it.                                       *)
(***************************************************************************)
BLOCKLIST_REFRESH_INTERVAL == 24 * 60 * 60

\* Time is counted in ticks of half the interval.
TickSeconds == 12 * 60 * 60
IntervalTicks == BLOCKLIST_REFRESH_INTERVAL \div TickSeconds

Least(a, b) == IF a < b THEN a ELSE b

InRefresh(p) ==
    procs[p].pc \in {"load_blocklists", "load_whitelist", "load_status",
                     "save_status", "write_conf", "reload"}

\* A variant of the timer that schedules at a fixed rate: the time since
\* the previous refresh began counts as slept.
SleepStart_FixedRate(t) == IF t.began THEN Least(t.since, IntervalTicks) ELSE 0

\* Line 575: time.sleep is called with the whole interval still ahead.
SleepStart(t) == 0

\* A variant without the handler of lines 586-587: an exception ends the
\* thread.
AfterCycle_Uncaught(outcome) == IF outcome = "raised" THEN "dead" ELSE "idle"

\* Lines 574-587: whatever the cycle did (continue, return or exception,
\* which line 586 catches), the loop goes back to line 575.
AfterCycle(outcome) == "idle"

\* A variant that refreshes on every wake-up.
auto_refresh_due_Always(blocklists) == TRUE

\* Line 578.
auto_refresh_due(blocklists) == blocklists # <<>>

\* What the timer thread writes to the log; no response exists.
Logged(op, run, reload_ok, answer) ==
    [BlStart EXCEPT !.op = op, !.body = RefreshResult(run, reload_ok),
                    !.reload = answer, !.before = list_files,
                    !.blocklists = timer.seen, !.overlapped = run.met]

\* Thread p enters _do_blocklist_refresh: the runs in progress and the new
\* one have met.
Entered(p) ==
    [q \in Threads |->
        IF q = p
        THEN [procs[q] EXCEPT !.pc = "load_blocklists",
                              !.met = \E r \in Threads \ {p} : InRefresh(r)]
        ELSE IF InRefresh(q) THEN [procs[q] EXCEPT !.met = TRUE]
        ELSE procs[q]]

\* The timer thread's record when a cycle ends and the next sleep starts.
Asleep(t) == [t EXCEPT !.slept = SleepStart(t)]

\* A tick of the clock.  A sleep advances only while the timer thread
\* sleeps.  A refresh crosses at most one tick: its fetches and its reload
\* are bounded by the timeouts of lines 304 and 135, far below a tick.
Tick ==
    /\ InRefresh(TimerThread) => timer.took = 0
    /\ timer' = [timer EXCEPT
                    !.slept = IF procs[TimerThread].pc = "idle"
                              THEN Least(@ + 1, IntervalTicks) ELSE @,
                    !.since = IF timer.began THEN Least(@ + 1, IntervalTicks + 1) ELSE @,
                    !.took = IF InRefresh(TimerThread) THEN @ + 1 ELSE @]
    /\ UNCHANGED << config_vars, list_files, procs, bl_last >>

\* Line 575 returns.
TimerWake ==
    /\ procs[TimerThread].pc = "idle"
    /\ timer.slept >= IntervalTicks
    /\ procs' = [procs EXCEPT ![TimerThread].pc = "woken"]
    /\ timer' = [timer EXCEPT !.parity = 1 - @, !.slept = 0]
    /\ UNCHANGED << config_vars, list_files, bl_last >>

\* Lines 577-581: with no source the loop continues, else the refresh is
\* called.
TimerLoad ==
    /\ procs[TimerThread].pc = "woken"
    /\ IF auto_refresh_due(load_blocklists)
       THEN /\ procs' = Entered(TimerThread)
            /\ timer' = [timer EXCEPT
                            !.seen = load_blocklists,
                            !.again = timer.began, !.gap = timer.since,
                            !.prev_took = timer.took,
                            !.began = TRUE, !.since = 0, !.took = 0]
            /\ UNCHANGED bl_last
       ELSE /\ procs' = [procs EXCEPT ![TimerThread].pc = AfterCycle("continue")]
            /\ timer' = Asleep([timer EXCEPT !.seen = load_blocklists])
            /\ bl_last' = [BlStart EXCEPT !.op = "auto_skip", !.before = list_files,
                                          !.blocklists = load_blocklists]
    /\ UNCHANGED << config_vars, list_files >>

\* A worker receives POST /api/blocklists/refresh (line 363).
RefreshRequest(p) ==
    /\ p \in Workers
    /\ procs[p].pc = "idle"
    /\ procs' = Entered(p)
    /\ UNCHANGED << config_vars, list_files, timer, bl_last >>

\* Line 292.
RefreshLoadBlocklists(p) ==
    /\ procs[p].pc = "load_blocklists"
    /\ procs' = [procs EXCEPT ![p] = [NoRun EXCEPT !.pc = "load_whitelist",
                                                   !.blocklists = load_blocklists,
                                                   !.met = procs[p].met]]
    /\ UNCHANGED << config_vars, list_files, timer, bl_last >>

\* Line 293.
RefreshLoadWhitelist(p) ==
    /\ procs[p].pc = "load_whitelist"
    /\ procs' = [procs EXCEPT
                    ![p].pc = "load_status",
                    ![p].whitelist = RefreshReads(<<>>, load_whitelist, <<>>).whitelist]
    /\ UNCHANGED << config_vars, list_files, timer, bl_last >>

\* Lines 294-337.
RefreshFetch(p, kinds) ==
    /\ procs[p].pc = "load_status"
    /\ \E answers \in [1..Len(procs[p].blocklists) -> kinds] :
          procs' = [procs EXCEPT
                       ![p] = [FetchLoop([procs[p] EXCEPT !.status = load_blocklist_status],
                                         1, answers, time_time(load_blocklist_status))
                               EXCEPT !.pc = "save_status"]]
    /\ UNCHANGED << config_vars, list_files, timer, bl_last >>

\* Line 339.
RefreshSaveStatus(p) ==
    /\ procs[p].pc = "save_status"
    /\ blocklist_status_file' = save_blocklist_status(procs[p].status)
    /\ procs' = [procs EXCEPT ![p].pc = "write_conf"]
    /\ UNCHANGED << config_vars, blocklists_file, whitelist_file, blocklist_conf,
                    local_records_file, local_records_conf, timer, bl_last >>

\* Lines 342-347.
RefreshWriteConf(p) ==
    /\ procs[p].pc = "write_conf"
    /\ blocklist_conf' = Text(BlocklistConfLines(SubtractWhitelist(procs[p]).all_domains))
    /\ procs' = [procs EXCEPT ![p] = [SubtractWhitelist(procs[p]) EXCEPT !.pc = "reload"]]
    /\ UNCHANGED << config_vars, blocklists_file, whitelist_file, blocklist_status_file,
                    local_records_file, local_records_conf, timer, bl_last >>

\* Lines 350-357, then the response of line 363 or the log of lines 582-585.
RefreshReload(p, reloads) ==
    /\ procs[p].pc = "reload"
    /\ \E answer \in reloads :
          bl_last' =
             IF p = TimerThread
             THEN Logged("auto_refresh", procs[p],
                         run_unbound_control("reload", answer)[2], answer)
             ELSE [BlStart EXCEPT
                      !.op = "api_blocklists_refresh", !.http = 200,
                      !.body = RefreshResult(procs[p],
                                             run_unbound_control("reload", answer)[2]),
                      !.reload = answer, !.before = list_files,
                      !.blocklists = procs[p].blocklists,
                      !.overlapped = procs[p].met]
    /\ procs' = [procs EXCEPT
                    ![p] = [NoRun EXCEPT !.pc = IF p = TimerThread
                                                THEN AfterCycle("returned") ELSE "idle"]]
    /\ timer' = IF p = TimerThread THEN Asleep(timer) ELSE timer
    /\ UNCHANGED << config_vars, list_files >>

\* A read or a write of lines 577 and 292-347 raises (the file is
\* unreadable, or another thread has truncated it and not yet written it).
\* Nothing is written.  The timer thread logs it at line 587; a worker
\* answers 500.
RefreshRaises(p) ==
    /\ procs[p].pc \in {"woken", "load_blocklists", "load_whitelist", "load_status",
                        "save_status", "write_conf"}
    /\ bl_last' = IF p = TimerThread
                  THEN [BlStart EXCEPT !.op = "auto_failed", !.before = list_files,
                                       !.blocklists = timer.seen]
                  ELSE [BlStart EXCEPT !.op = "api_blocklists_refresh", !.http = 500,
                                       !.before = list_files]
    /\ procs' = [procs EXCEPT
                    ![p] = [NoRun EXCEPT !.pc = IF p = TimerThread
                                                THEN AfterCycle("raised") ELSE "idle"]]
    /\ timer' = IF p = TimerThread THEN Asleep(timer) ELSE timer
    /\ UNCHANGED << config_vars, list_files >>

(***************************************************************************)
(* Two workers refreshing at once while other requests add to and remove   *)
(* from the whitelist and remove the source.                               *)
(***************************************************************************)
InitRace ==
    /\ ConfigAtStart
    /\ options_file = NoDoc
    /\ blocklists_file = ListDoc(<< URL_A >>)
    /\ whitelist_file = NoList
    /\ blocklist_status_file = NoList
    /\ blocklist_conf = NoText
    /\ local_records_file = NoList
    /\ local_records_conf = NoText
    /\ procs = [p \in Threads |-> NoRun]
    /\ timer = TimerStart
    /\ bl_last = BlStart

WorkerRefreshes ==
    \E p \in Workers :
       \/ RefreshRequest(p)
       \/ RefreshLoadBlocklists(p)
       \/ RefreshLoadWhitelist(p)
       \/ RefreshFetch(p, {"ok"})
       \/ RefreshSaveStatus(p)
       \/ RefreshWriteConf(p)
       \/ RefreshReload(p, {"ok"})

WhitelistOne == WhitelistAddFrom({"domain" :> "y.com"})

NextRace ==
    \/ WorkerRefreshes
    \/ WhitelistOne
    \/ ApiWhitelistRemove
    \/ ApiBlocklistsRemove

SpecRace == InitRace /\ [][NextRace]_vars

(***************************************************************************)
(* The timer thread under a ticking clock, next to requests that add and   *)
(* remove a source.                                                        *)
(***************************************************************************)
TimerRefreshes ==
    \/ RefreshLoadBlocklists(TimerThread)
    \/ RefreshLoadWhitelist(TimerThread)
    \/ RefreshFetch(TimerThread, {"ok", "timeout"})
    \/ RefreshSaveStatus(TimerThread)
    \/ RefreshWriteConf(TimerThread)
    \/ RefreshReload(TimerThread, {"ok", "nonzero"})

TimerFails == RefreshRaises(TimerThread)

TimerStep ==
    \/ TimerWake
    \/ TimerLoad
    \/ TimerRefreshes
    \/ TimerFails

SourceA == BlocklistsAddFrom({"url" :> URL_A})

NextTimer ==
    \/ Tick
    \/ TimerStep
    \/ SourceA
    \/ ApiBlocklistsRemove

SpecTimer == InitLists /\ [][NextTimer]_vars

\* The timer thread is a running thread and the clock advances.
FairSpecTimer == SpecTimer /\ WF_vars(TimerStep) /\ WF_vars(Tick)

(***************************************************************************)
(* Properties.  Each is about the state right after an operation: last     *)
(* describes that operation and what held just before it.                  *)
(***************************************************************************)
IsApply(l) == l.op = "api_config_put" /\ l.applied

Failures == {"nonzero", "timeout", "notfound"}

\* The Configuration invariant stated from the schema table alone: the
\* schema keys of c whose value has the wrong kind or lies out of bounds.
KindMatches(opt, val) ==
    CASE opt.type = "bool" -> val.t = "bool"
      [] opt.type = "int" -> val.t = "int"
      [] OTHER -> val.t = "list"

InBounds(opt, val) ==
    opt.type = "int" => /\ opt.has_min => opt.min <= val.i
                        /\ opt.has_max => val.i <= opt.max

Violations(c) ==
    { n \in 1..Len(CONFIG_SCHEMA) :
        /\ CONFIG_SCHEMA[n].key \in DOMAIN c
        /\ ~(/\ KindMatches(CONFIG_SCHEMA[n], c[CONFIG_SCHEMA[n].key])
             /\ InBounds(CONFIG_SCHEMA[n], c[CONFIG_SCHEMA[n].key])) }

Acceptable(c) == Violations(c) = {}

AllResultKeys == {"ok", "message", "restart_required"}

\* C1: if the syntax checker fails during an apply, the live artifact and
\* the stored override document both equal their values from just before
\* the call (absent files included), and the result is a rejection.
C1_RollbackRestoresBoth ==
    (IsApply(last) /\ last.check \in Failures)
        => /\ "unbound_conf" \notin last.changed
           /\ "config_file" \notin last.changed
           /\ ~last.result["ok"].b

\* C2: when an apply has returned, the live artifact is never a text the
\* syntax checker rejected during that call.
C2_NeverLeftWithRejectedArtifact ==
    (IsApply(last) /\ last.check \in Failures)
        => ~(unbound_conf.exists /\ unbound_conf.text = last.content)

\* C3: when validate(candidate) returns errors, apply returns the rejection
\* whose message joins them and changes nothing: no file is written, the
\* query log is not rotated, neither the checker nor a reload is run.
C3_InvalidCandidateChangesNothing ==
    (IsApply(last) /\ validate_config(last.candidate) # <<>>)
        => /\ last.result =
                ("ok" :> PyBool(FALSE)
                   @@ "message" :> PyStr("Validation failed: "
                        \o JoinStr(validate_config(last.candidate), "; ")))
           /\ last.changed = {}
           /\ last.steps = << "validate_config" >>
           /\ last.check = "none"
           /\ last.reload = "none"

C3_Witness ==
    /\ IsApply(last)
    /\ Len(last.errors) >= 2
    /\ config_file.exists
    /\ unbound_conf.exists
    /\ query_log.exists /\ query_log.size > LOG_MAX_SIZE
    /\ Truthy(last.candidate["log_queries"])

\* C4: after an accepted apply(c), load() returns exactly c; after a
\* rejected apply, load() returns what it returned just before the call.
C4_LoadRoundTrip ==
    (IsApply(last) /\ ~last.raised)
        => IF last.result["ok"].b
           THEN load_config = last.candidate
           ELSE load_config = last.load_before

C4_Witness ==
    /\ Accepted(last)
    /\ "note" \in DOMAIN last.candidate
    /\ last.candidate["num_threads"] = PyInt(4)
    /\ last.candidate # last.load_before
    /\ load_config = last.candidate

\* C5: an apply that starts with the live artifact equal to render(load())
\* ends with the live artifact equal to render(load()), whatever its outcome;
\* only the daemon's loaded configuration may lag behind.
C5_ConsistencyPreserved ==
    (IsApply(last) /\ last.consistent_before) => Consistent

C5_Witness ==
    /\ IsApply(last)
    /\ last.consistent_before
    /\ last.reload \in Failures
    /\ Consistent
    /\ daemon_conf.exists
    /\ daemon_conf.text # unbound_conf.text

\* C6: in every reachable state load() satisfies the Configuration
\* invariant: complete, every value of its option's kind and within bounds.
C6_LoadedConfigValid ==
    /\ SchemaKeys \subseteq DOMAIN load_config
    /\ validate_config(load_config) = <<>>

\* C7: an accepted apply that starts from a valid loaded Configuration (as
\* after an accepted apply) returns restart_required = TRUE iff num_threads
\* differs between the loaded Configuration and the candidate: TRUE when
\* only num_threads changed, FALSE when only one other field changed.
C7_RestartRequiredIffThreads ==
    (Accepted(last) /\ Acceptable(last.load_before))
        => LET old == last.load_before
               new == last.candidate
               rr == last.result["restart_required"].b
               changed == { k \in SchemaKeys : old[k] # new[k] }
           IN  /\ rr = (old["num_threads"] # new["num_threads"])
               /\ changed = {"num_threads"} => rr
               /\ (Cardinality(changed) = 1 /\ changed # {"num_threads"}) => ~rr

C7_Witness ==
    /\ Accepted(last)
    /\ last.result["restart_required"].b
    /\ last.load_before["log_queries"] = PyBool(TRUE)
    /\ last.load_before["num_threads"] = PyInt(2)
    /\ last.candidate["num_threads"] = PyInt(4)

\* C8: when validation and the syntax check succeed and the reload fails,
\* apply returns ok = TRUE with restart_required and a message carrying the
\* reload failure; the candidate stays stored and its rendering stays live.
C8_ReloadFailureKeepsCommit ==
    (IsApply(last) /\ last.check = "ok" /\ last.reload \in Failures)
        => LET result == last.result
               new == last.candidate
           IN  /\ DOMAIN result = AllResultKeys
               /\ result["ok"] = PyBool(TRUE)
               /\ result["restart_required"] =
                    PyBool(last.load_before["num_threads"] # new["num_threads"])
               /\ result["message"] =
                    PyStr("Config saved but reload failed: "
                          \o _reload_unbound(last.reload)[2]
                          \o (IF result["restart_required"].b
                              THEN " (addon restart required for thread count change)"
                              ELSE ""))
               /\ config_file = Doc(json_dump(new))
               /\ unbound_conf = Text(generate_unbound_conf(new))
               /\ "daemon_conf" \notin last.changed

C8_Witness ==
    /\ IsApply(last)
    /\ last.check = "ok"
    /\ last.reload = "timeout"
    /\ last.result["restart_required"].b
    /\ config_file = Doc(json_dump(last.candidate))
    /\ "config_file" \in last.changed

\* C9: every dict returned by apply carries ok, message and
\* restart_required.
C9_ResultHasThreeFields ==
    (IsApply(last) /\ ~last.raised) => DOMAIN last.result = AllResultKeys

\* C10: validate returns no error iff every schema key present has a value
\* of the option's kind and within bounds; it returns one error per
\* violation, ignores absent and non-schema keys, accepts the defaults and
\* changes no stored state.
C10_ValidateMatchesSchema ==
    last.op = "validate_config"
        => /\ (last.errors = <<>>) <=> Acceptable(last.candidate)
           /\ Len(last.errors) = Cardinality(Violations(last.candidate))
           /\ last.candidate = _defaults => last.errors = <<>>
           /\ last.changed = {}

C10_Witness ==
    /\ last.op = "validate_config"
    /\ Len(last.errors) = 3
    /\ "note" \in DOMAIN last.candidate
    /\ ~(SchemaKeys \subseteq DOMAIN last.candidate)

(***************************************************************************)
(* Properties of the lists.  bl_last describes the request just handled.   *)
(***************************************************************************)
IsRefresh == bl_last.op = "api_blocklists_refresh"

\* The domains each served body lists, read off the bodies by hand.
DomainsAt(url) ==
    CASE url = URL_A -> {"x.com", "y.com"}
      [] url = URL_B -> {"x.com"}
      [] url = URL_C -> {"y.com", "z.com"}
      [] OTHER -> {}

Directive(domain) == "local-zone: \"" \o domain \o ".\" always_refuse"

\* The positions of the sources whose fetch failed, and of the others.
FailedAt == { n \in DOMAIN bl_last.blocklists : bl_last.fetched[n] # "ok" }
FetchedAt == (DOMAIN bl_last.blocklists) \ FailedAt

\* What the policy file must list after the refresh just handled.
ExpectedDomains ==
    (UNION {DomainsAt(bl_last.blocklists[n]) : n \in FetchedAt})
        \ SetOf(bl_last.whitelist)

\* C11: after a refresh the policy file holds exactly one directive per
\* domain of (the union of the domain sets of the sources fetched with
\* success) minus the whitelist, in lexicographic order, whatever it held
\* before; domains_blocked is the number of directives; the status of a
\* source fetched with success counts its own domains before the whitelist
\* is subtracted, that of a failed source counts 0.
C11_RefreshWritesAggregate ==
    IsRefresh =>
        LET text == blocklist_conf.text
            status == blocklist_status_file.doc
        IN  /\ blocklist_conf.exists
            /\ Len(text) = Cardinality(ExpectedDomains)
            /\ SetOf(text) = {Directive(d) : d \in ExpectedDomains}
            /\ \A n \in 1..(Len(text) - 1) :
                  \E a, b \in ExpectedDomains :
                     /\ text[n] = Directive(a)
                     /\ text[n + 1] = Directive(b)
                     /\ StrLess(a, b)
            /\ bl_last.body.domains_blocked = Len(text)
            /\ \A n \in DOMAIN bl_last.blocklists :
                  LET url == bl_last.blocklists[n]
                  IN  /\ url \in DOMAIN status
                      /\ status[url].domains =
                            IF n \in FetchedAt THEN Cardinality(DomainsAt(url)) ELSE 0

C11_Witness ==
    /\ IsRefresh
    /\ bl_last.blocklists = << URL_A, URL_B, URL_C >>
    /\ bl_last.fetched = << "ok", "timeout", "ok" >>
    /\ bl_last.whitelist = << "y.com" >>
    /\ blocklist_conf.text = << Directive("x.com"), Directive("z.com") >>
    /\ bl_last.body.domains_blocked = 2
    /\ Len(bl_last.body.errors) = 1
    /\ blocklist_status_file.doc[URL_A].domains = 2
    /\ blocklist_status_file.doc[URL_B].domains = 0
    /\ blocklist_status_file.doc[URL_C].domains = 2

\* C12: a refresh is never aborted by a failing source: every source
\* configured at its start has a status entry stamped by this refresh, a
\* failed one with 0 domains and the error text; the error list has exactly
\* one entry per failed source, in source order; the policy file was
\* written and a reload was issued.
C12_PartialFailureNeverAborts ==
    IsRefresh =>
        LET status == blocklist_status_file.doc
            errors == bl_last.body.errors
        IN  /\ bl_last.http = 200
            /\ \A n \in DOMAIN bl_last.blocklists :
                  LET url == bl_last.blocklists[n]
                  IN  /\ url \in DOMAIN status
                      /\ status[url].last_refresh = bl_last.time
                      /\ n \in FailedAt =>
                            /\ status[url].domains = 0
                            /\ status[url].error.t = "str"
                            /\ status[url].error.s # ""
                            /\ \E k \in DOMAIN errors :
                                  /\ errors[k].url = url
                                  /\ strip(errors[k].error) = status[url].error.s
                      /\ n \in FetchedAt => status[url].error = PyNone
            /\ Len(errors) = Cardinality(FailedAt)
            /\ \A j, k \in DOMAIN errors :
                  j < k => \E m, n \in FailedAt :
                              /\ m < n
                              /\ errors[j].url = bl_last.blocklists[m]
                              /\ errors[k].url = bl_last.blocklists[n]
            /\ blocklist_conf.exists
            /\ Len(blocklist_conf.text) = bl_last.body.domains_blocked
            /\ bl_last.reload # "none"

C12_Witness ==
    /\ IsRefresh
    /\ bl_last.blocklists = << URL_C, URL_B, URL_A >>
    /\ bl_last.fetched = << "nonzero", "timeout", "ok" >>
    /\ bl_last.time = 1
    /\ Len(bl_last.body.errors) = 2
    /\ blocklist_status_file.doc[URL_C].error = PyStr("curl: (6) Could not resolve host")
    /\ blocklist_status_file.doc[URL_A].domains = 2
    /\ blocklist_conf.exists
    /\ bl_last.reload = "nonzero"

\* The domain a directive of the policy file names.
DomainOfDirective(line) == SubSeq(line, 14, Len(line) - 16)

\* C13: after any refresh, whatever the sources serve and whatever the
\* whitelist holds, no directive of the policy file names one of the fixed
\* local hostnames, in any letter case, and none was counted for a source.
C13_LocalNamesNeverBlocked ==
    IsRefresh =>
        /\ \A n \in DOMAIN blocklist_conf.text :
              /\ blocklist_conf.text[n] = Directive(DomainOfDirective(blocklist_conf.text[n]))
              /\ lower(DomainOfDirective(blocklist_conf.text[n]))
                    \notin { "localhost", "localhost.localdomain", "local",
                             "broadcasthost", "ip6-localhost", "ip6-loopback",
                             "ip6-localnet", "ip6-mcastprefix", "ip6-allnodes",
                             "ip6-allrouters", "ip6-allhosts" }
        /\ \A n \in FetchedAt :
              blocklist_status_file.doc[bl_last.blocklists[n]].domains
                 = Cardinality(DomainsAt(bl_last.blocklists[n]))

C13_Witness ==
    /\ IsRefresh
    /\ bl_last.blocklists = << URL_C, URL_B, URL_A >>
    /\ bl_last.fetched = << "ok", "ok", "ok" >>
    /\ bl_last.whitelist = <<>>
    /\ blocklist_conf.text = << Directive("x.com"), Directive("y.com"), Directive("z.com") >>

\* The files of the lists as the last add or remove found them.
SourcesBefore == LoadList(bl_last.before[1])
WhitelistBefore == LoadList(bl_last.before[2])
StatusBefore == IF bl_last.before[3].exists THEN bl_last.before[3].doc ELSE EmptyDict
RecordsBefore == LoadList(bl_last.before[5])

NoRepeat(q) == \A i, j \in DOMAIN q : i # j => q[i] # q[j]

\* The URL a body submits, trimmed by hand for the bodies in use.
Trimmed(data) ==
    IF "url" \notin DOMAIN data THEN ""
    ELSE CASE data["url"] = "  " \o URL_A \o "\n" -> URL_A
           [] data["url"] = " \t " -> ""
           [] OTHER -> data["url"]

\* C18: the source list never holds a URL twice; an add of a URL that,
\* trimmed, is already in the list answers 409 and leaves the list as it
\* was; a successful add leaves the list as it was with the trimmed URL
\* appended.
C18_SourcesDistinct ==
    /\ NoRepeat(load_blocklists)
    /\ (bl_last.op = "api_blocklists_add" /\ Trimmed(bl_last.data) # "")
          => IF InList(Trimmed(bl_last.data), SourcesBefore)
             THEN /\ bl_last.http = 409
                  /\ blocklists_file = bl_last.before[1]
             ELSE /\ bl_last.http = 201
                  /\ load_blocklists = Append(SourcesBefore, Trimmed(bl_last.data))
    /\ (bl_last.op = "api_blocklists_remove" /\ bl_last.http = 200)
          => /\ Len(load_blocklists) = Len(SourcesBefore) - 1
             /\ \A n \in DOMAIN load_blocklists :
                   load_blocklists[n] = SourcesBefore[IF n <= bl_last.idx THEN n ELSE n + 1]

C18_Witness ==
    /\ bl_last.op = "api_blocklists_add"
    /\ bl_last.data = ("url" :> ("  " \o URL_A \o "\n"))
    /\ bl_last.http = 409
    /\ load_blocklists = << URL_C, URL_A, URL_B >>

\* C19: every key of the status document is a configured source; a remove
\* deletes the status entry of the URL it removed and leaves every other
\* entry as it was.
C19_StatusPruned ==
    /\ DOMAIN load_blocklist_status \subseteq SetOf(load_blocklists)
    /\ (bl_last.op = "api_blocklists_remove" /\ bl_last.http = 200)
          => LET removed == SourcesBefore[bl_last.idx + 1]
             IN  /\ bl_last.body.key = removed
                 /\ DOMAIN load_blocklist_status = (DOMAIN StatusBefore) \ {removed}
                 /\ \A url \in DOMAIN load_blocklist_status :
                       load_blocklist_status[url] = StatusBefore[url]

C19_Witness ==
    /\ bl_last.op = "api_blocklists_remove"
    /\ bl_last.http = 200
    /\ bl_last.idx = 1
    /\ SourcesBefore = << URL_A, URL_B, URL_C >>
    /\ DOMAIN StatusBefore = {URL_A, URL_B, URL_C}
    /\ DOMAIN load_blocklist_status = {URL_A, URL_C}
    /\ load_blocklist_status[URL_C].error # PyNone

\* The key a body submits to an add, normalised by hand for the bodies in
\* use ("" when the body has none).
KeySubmitted ==
    CASE bl_last.op = "api_blocklists_add" -> Trimmed(bl_last.data)
      [] bl_last.op = "api_whitelist_add" ->
            IF "domain" \notin DOMAIN bl_last.data THEN ""
            ELSE IF bl_last.data["domain"] = " Y.Com " THEN "y.com"
            ELSE bl_last.data["domain"]
      [] bl_last.op = "api_local_records_add" ->
            IF {"hostname", "ip"} \subseteq DOMAIN bl_last.data
            THEN (IF bl_last.data["hostname"] = " NAS.Lan" THEN "nas.lan"
                  ELSE bl_last.data["hostname"])
            ELSE ""
      [] OTHER -> ""

\* The keys the list concerned held when the request came in.
KeysBefore ==
    CASE bl_last.op \in {"api_blocklists_add", "api_blocklists_remove"} -> SourcesBefore
      [] bl_last.op \in {"api_whitelist_add", "api_whitelist_remove"} -> WhitelistBefore
      [] bl_last.op \in {"api_local_records_add", "api_local_records_remove"} ->
            [n \in DOMAIN RecordsBefore |-> RecordsBefore[n].hostname]
      [] OTHER -> <<>>

IsAdd == bl_last.op \in {"api_blocklists_add", "api_whitelist_add", "api_local_records_add"}
IsRemove ==
    bl_last.op \in {"api_blocklists_remove", "api_whitelist_remove",
                    "api_local_records_remove"}

\* C20: a remove whose index is below 0 or not below the length of its
\* list answers 404, an add whose key is already in its list answers 409;
\* both leave every stored document and every generated file as they were
\* and issue no reload.
C20_ErrorsChangeNothing ==
    /\ (IsRemove /\ (bl_last.idx < 0 \/ bl_last.idx >= Len(KeysBefore)))
          => /\ bl_last.http = 404
             /\ bl_last.body.error # ""
             /\ list_files = bl_last.before
             /\ bl_last.reload = "none"
    /\ (IsAdd /\ KeySubmitted # "" /\ InList(KeySubmitted, KeysBefore))
          => /\ bl_last.http = 409
             /\ bl_last.body.error # ""
             /\ list_files = bl_last.before
             /\ bl_last.reload = "none"

C20_Witness ==
    /\ bl_last.op = "api_local_records_add"
    /\ bl_last.data["hostname"] = " NAS.Lan"
    /\ bl_last.http = 409
    /\ load_local_records = << [hostname |-> "nas.lan", ip |-> "192.168.1.10"] >>
    /\ local_records_conf.exists
    /\ blocklist_conf.exists
    /\ blocklist_conf.text # <<>>
    /\ DOMAIN load_blocklist_status = {URL_A, URL_B}
    /\ load_whitelist = << "y.com" >>

(***************************************************************************)
(* Properties of the threads.                                              *)
(***************************************************************************)
AllIdle == \A p \in Threads : procs[p].pc = "idle"

\* The policy files a refresh of the given sources under the given
\* whitelist may write: one per set of sources whose fetch succeeds.
AggregatesOf(sources, whitelist) ==
    { sorted({Directive(d) :
                d \in (UNION {DomainsAt(sources[n]) : n \in fetched}) \ SetOf(whitelist)})
      : fetched \in SUBSET DOMAIN sources }

\* C14: when refreshes have run at the same time, possibly while sources or
\* whitelist entries were added or removed, then once the last of them has
\* finished the policy file is the refresh aggregate of the sources and the
\* whitelist as they are at that moment.
C14_ConcurrentRefreshesConverge ==
    (AllIdle /\ IsRefresh /\ bl_last.overlapped) =>
        blocklist_conf.text \in AggregatesOf(load_blocklists, load_whitelist)

IsAuto == bl_last.op \in {"auto_refresh", "auto_failed", "auto_skip"}

\* C15: the unattended refresh never runs at the same time as itself (one
\* thread runs it, and its sleep advances only while no refresh of its own
\* is in progress), and between the start of one unattended refresh and
\* the start of the next lie at least the full interval plus the time the
\* earlier one took.
C15_TimerStrictlySequential ==
    /\ timer.slept > 0 => procs[TimerThread].pc = "idle"
    /\ timer.again => timer.gap >= IntervalTicks + timer.prev_took

\* A refresh that crossed a tick delayed the next one by that tick.
C15_Witness ==
    /\ timer.again
    /\ timer.prev_took = 1
    /\ timer.gap = IntervalTicks + 1
    /\ InRefresh(TimerThread)

\* C16: no outcome of a cycle ends the timer loop.  After a cycle with no
\* source, a completed refresh, a failed fetch or reload, or an exception,
\* the thread sleeps again and, the thread being scheduled and time
\* passing, wakes up again and again; what the cycle did is logged and
\* never becomes a response.
C16_TimerLoopSurvives ==
    /\ [](IsAuto => bl_last.http = 0)
    /\ (procs[TimerThread].pc # "idle") ~> (procs[TimerThread].pc = "idle")
    /\ []<>(timer.parity = 0)
    /\ []<>(timer.parity = 1)

\* The thread has woken up again after a cycle that raised.
C16_Witness ==
    /\ bl_last.op = "auto_failed"
    /\ procs[TimerThread].pc = "woken"

\* C17: at a wake-up of the timer thread a refresh is performed exactly
\* when the source list read at that moment is not empty; with no source
\* the cycle writes no file and issues no reload.
C17_RefreshOnlyWithSources ==
    /\ InRefresh(TimerThread) => timer.seen # <<>>
    /\ bl_last.op = "auto_refresh" => bl_last.blocklists # <<>>
    /\ bl_last.op = "auto_skip" =>
          /\ bl_last.blocklists = <<>>
          /\ bl_last.reload = "none"
          /\ list_files = bl_last.before

\* A cycle found the source removed and left the earlier policy and status
\* as they were.
C17_Witness ==
    /\ bl_last.op = "auto_skip"
    /\ blocklist_conf.text # <<>>
    /\ blocklist_status_file.doc # EmptyDict
    /\ load_blocklists = <<>>

(***************************************************************************)
(* Properties of the local records, the renderer, the statistics and the   *)
(* frame of the list requests.                                             *)
(***************************************************************************)
IsLocalRecordsChange ==
    /\ bl_last.op \in {"api_local_records_add", "api_local_records_remove"}
    /\ bl_last.http \in {200, 201}

\* The record a body submits, normalised by hand for the bodies in use.
RecordSubmitted ==
    CASE bl_last.data["hostname"] = " NAS.Lan" -> [hostname |-> "nas.lan", ip |-> "192.168.1.11"]
      [] bl_last.data["hostname"] = "tv.lan" -> [hostname |-> "tv.lan", ip |-> "192.168.1.12"]
      [] OTHER -> [hostname |-> bl_last.data["hostname"], ip |-> bl_last.data["ip"]]

\* C21: no two local records share a hostname.  After each successful add
\* or remove the stored sequence is the earlier one with the record
\* appended or the indexed one taken out, local_records.conf holds exactly
\* two directives per stored record, in sequence order, and a reload was
\* issued; reload_ok tells whether it succeeded, and a failed reload
\* leaves the mutation in place.
C21_LocalRecordsProjected ==
    LET records == load_local_records
        text == local_records_conf.text
    IN  /\ \A i, j \in DOMAIN records :
              i # j => records[i].hostname # records[j].hostname
        /\ IsLocalRecordsChange =>
              /\ records =
                    IF bl_last.op = "api_local_records_add"
                    THEN RecordsBefore \o << RecordSubmitted >>
                    ELSE [n \in 1..(Len(RecordsBefore) - 1) |->
                             RecordsBefore[IF n <= bl_last.idx THEN n ELSE n + 1]]
              /\ local_records_conf.exists
              /\ Len(text) = 2 * Len(records)
              /\ \A n \in DOMAIN records :
                    /\ text[2 * n - 1] =
                          "local-zone: \"" \o records[n].hostname \o ".\" redirect"
                    /\ text[2 * n] =
                          "local-data: \"" \o records[n].hostname \o ". A "
                             \o records[n].ip \o "\""
              /\ bl_last.reload # "none"
              /\ bl_last.body.reload_ok = (bl_last.reload = "ok")

\* A second record was added, the reload failed and the record stayed.
C21_Witness ==
    /\ bl_last.op = "api_local_records_add"
    /\ bl_last.http = 201
    /\ bl_last.reload = "nonzero"
    /\ ~bl_last.body.reload_ok
    /\ load_local_records = << [hostname |-> "tv.lan", ip |-> "192.168.1.12"],
                               [hostname |-> "nas.lan", ip |-> "192.168.1.11"] >>
    /\ Len(local_records_conf.text) = 4

IsRender == last.op = "generate_unbound_conf"

\* The schema fields in which two complete configurations differ.
FieldsChanged(a, b) == { k \in SchemaKeys : a[k] # b[k] }

\* The directives each schema field determines, by their text.
DerivedFrom(k, line) ==
    CASE k = "do_ip4" -> startswith(line, "    do-ip4: ")
      [] k = "do_ip6" -> startswith(line, "    do-ip6: ")
      [] k = "prefer_ip4" -> startswith(line, "    prefer-ip4: ")
      [] k = "num_threads" -> startswith(line, "    num-threads: ")
      [] k = "prefetch" -> startswith(line, "    prefetch: ")
      [] k = "fast_server_permil" -> startswith(line, "    fast-server-permil: ")
      [] k = "fast_server_num" -> startswith(line, "    fast-server-num: ")
      [] k = "cache_min_ttl" -> startswith(line, "    cache-min-ttl: ")
      [] k = "cache_max_ttl" -> startswith(line, "    cache-max-ttl: ")
      [] k = "qname_minimisation" -> startswith(line, "    qname-minimisation: ")
      [] k = "hide_identity" -> startswith(line, "    hide-identity: ")
      [] k = "hide_version" -> startswith(line, "    hide-version: ")
      [] k = "verbosity" -> startswith(line, "    verbosity: ")
      [] k = "log_queries" ->
            \/ startswith(line, "    logfile: ")
            \/ startswith(line, "    log-queries: ")
            \/ startswith(line, "    log-replies: ")
      [] k = "access_control" -> startswith(line, "    access-control: ")
      [] k = "enable_dnssec" ->
            line \in {"    # DNSSEC validation", "    val-clean-additional: yes",
                      "    # DNSSEC validation disabled",
                      "    module-config: \"iterator\""}
      [] k = "forward_tls" -> startswith(line, "    forward-tls-upstream: ")
      [] OTHER -> FALSE

HasForwardZone(text) == \E n \in DOMAIN text : text[n] = "forward-zone:"

\* The text without its forwarding block (the block and the empty line
\* before it; the closing empty line stays).
WithoutForwardZone(text) ==
    IF HasForwardZone(text)
    THEN LET n == CHOOSE i \in DOMAIN text : text[i] = "forward-zone:"
         IN  SubSeq(text, 1, n - 2) \o << "" >>
    ELSE text

\* The text without the directives field k determines.
Without(k, text) ==
    IF k = "forward_servers" THEN WithoutForwardZone(text)
    ELSE LET Keep(line) == ~DerivedFrom(k, line) IN SelectSeq(text, Keep)

\* What both statements of C22 share: the text is a function of the
\* configuration alone, and two configurations that differ in one schema
\* field give texts that differ only in that field's directives.
RenderDependsOnConfigOnly ==
    /\ (IsRender /\ last.prev.called) =>
          /\ last.prev.candidate = last.candidate => last.prev.content = last.content
          /\ \A k \in SchemaKeys :
                FieldsChanged(last.prev.candidate, last.candidate) = {k}
                   => Without(k, last.prev.content) = Without(k, last.content)
    /\ IsRender =>
          (HasForwardZone(last.content) <=> last.candidate["forward_servers"].l # <<>>)

\* C22 as stated: render is a pure, deterministic function of the
\* Configuration: two calls on the same Configuration return the same text
\* whatever the disk holds, a call changes no persistent state, and the
\* texts of two Configurations that differ in one schema field differ only
\* in the directives of that field, the forwarding block being present
\* exactly when forward_servers is not empty.
C22_RenderIsPure ==
    /\ RenderDependsOnConfigOnly
    /\ IsRender => last.changed = {}

\* C22 amended: as stated, except that a call changes no persistent state
\* other than the query log, which it rotates (moves to the .old file)
\* when log_queries is on and the log exceeds LOG_MAX_SIZE; without that
\* condition it changes nothing.
C22_RenderTextIsPure ==
    /\ RenderDependsOnConfigOnly
    /\ IsRender =>
          /\ last.changed \subseteq {"query_log", "query_log_old"}
          /\ last.changed # {} =>
                /\ Truthy(last.candidate["log_queries"])
                /\ query_log_old.exists
                /\ query_log_old.size > LOG_MAX_SIZE

\* The same Configuration was rendered twice, the second time with the
\* log rotated by the call, and the text came out the same.
C22_Witness ==
    /\ IsRender
    /\ last.prev.called
    /\ last.prev.candidate = last.candidate
    /\ Truthy(last.candidate["log_queries"])
    /\ last.changed = {"query_log", "query_log_old"}
    /\ last.content = last.prev.content

IsStats == bl_last.op = "api_stats" /\ bl_last.reload = "ok"

\* The number a metric's text stands for, as numerator and denominator,
\* read off by hand for the texts in use; an absent metric counts as 0.
MetricValue(key) ==
    IF key \notin DOMAIN bl_last.data THEN << 0, 1 >>
    ELSE CASE bl_last.data[key] \in {"0", "0.0", "0.000000"} -> << 0, 1 >>
           [] bl_last.data[key] = "1" -> << 1, 1 >>
           [] bl_last.data[key] = "3" -> << 3, 1 >>
           [] bl_last.data[key] = "8" -> << 8, 1 >>
           [] bl_last.data[key] = "4.000000" -> << 4, 1 >>
           [] bl_last.data[key] = "2.5" -> << 5, 2 >>

Absolute(i) == IF i < 0 THEN 0 - i ELSE i

\* tenths is the quotient num/den itself, counted in tenths.
IsQuotient(tenths, num, den) == tenths * den = 10 * num

\* tenths is a tenth nearest to the quotient num/den.
IsNearestTenth(tenths, num, den) == 2 * Absolute(tenths * den - 10 * num) <= den

\* The guards: no division error, and 0 for a denominator that is 0 or
\* absent.
StatsGuarded ==
    IsStats =>
        /\ bl_last.http = 200
        /\ ~bl_last.body.raised
        /\ MetricValue("total.num.queries")[1] = 0 => bl_last.body.cache_hit_rate = 0
        /\ MetricValue("time.up")[1] = 0 => bl_last.body.queries_per_sec = 0

\* C23 as stated: the cache hit rate is 0 when total queries is 0 or
\* absent, and queries per second is 0 when uptime is 0 or absent;
\* otherwise the hit rate is cache hits / total queries * 100 and queries
\* per second is total queries / uptime; no division error is raised.
C23_StatsAreTheQuotients ==
    /\ StatsGuarded
    /\ IsStats =>
          LET total == MetricValue("total.num.queries")
              hits == MetricValue("total.num.cachehits")
              up == MetricValue("time.up")
          IN  /\ total[1] # 0 =>
                    IsQuotient(bl_last.body.cache_hit_rate,
                               100 * hits[1] * total[2], hits[2] * total[1])
              /\ up[1] # 0 =>
                    IsQuotient(bl_last.body.queries_per_sec,
                               total[1] * up[2], total[2] * up[1])

\* C23 amended: as stated, with both quotients rounded to one decimal
\* place.
C23_StatsAreRoundedQuotients ==
    /\ StatsGuarded
    /\ IsStats =>
          LET total == MetricValue("total.num.queries")
              hits == MetricValue("total.num.cachehits")
              up == MetricValue("time.up")
          IN  /\ total[1] # 0 =>
                    IsNearestTenth(bl_last.body.cache_hit_rate,
                                   100 * hits[1] * total[2], hits[2] * total[1])
              /\ up[1] # 0 =>
                    IsNearestTenth(bl_last.body.queries_per_sec,
                                   total[1] * up[2], total[2] * up[1])

\* One hit in three queries over an uptime of four seconds: 33.3 per cent
\* and 0.8 queries per second.
C23_Witness ==
    /\ IsStats
    /\ {"total.num.queries", "total.num.cachehits", "time.up"} \subseteq DOMAIN bl_last.data
    /\ bl_last.data["total.num.queries"] = "3"
    /\ bl_last.data["total.num.cachehits"] = "1"
    /\ bl_last.data["time.up"] = "4.000000"
    /\ bl_last.body.cache_hit_rate = 333
    /\ bl_last.body.queries_per_sec = 8
    /\ bl_last.body.total_queries = 3

(***************************************************************************)
(* The order of the steps of one apply_config call.                        *)
(***************************************************************************)
\* The positions of a step in the steps of the last call, in order.
Positions(step) == { i \in DOMAIN last.steps : last.steps[i] = step }

Took(step) == Positions(step) # {}

First(step) == CHOOSE i \in Positions(step) : \A j \in Positions(step) : i <= j

\* The pipeline of the claim: each step that was taken comes after all the
\* earlier ones of the pipeline, which were all taken.
Pipeline ==
    << "validate_config", "save_config", "write_conf", "check_conf", "_reload_unbound" >>

InPipelineOrder ==
    \A i \in DOMAIN Pipeline : \A j \in DOMAIN Pipeline :
        (i < j /\ Took(Pipeline[j]))
            => (Took(Pipeline[i]) /\ First(Pipeline[i]) < First(Pipeline[j]))

\* The rollback of the call: the artifact put back or the stored document
\* saved a second time.
RolledBack == Took("restore_backup") \/ Cardinality(Positions("save_config")) > 1

\* C24: the steps of an apply call come in the order validate, persist the
\* candidate, write the artifact, check, reload; the reload is issued iff
\* validation returned no errors and the check of the written artifact
\* succeeded, exactly once and as the last step, never before the check
\* and never in a call that rolled back.
C24_ApplyStepsInOrder ==
    last.op = "api_config_put" =>
        /\ last.steps # <<>> => last.steps[1] = "validate_config"
        /\ InPipelineOrder
        /\ Took("_reload_unbound")
              <=> (~last.raised /\ last.errors = <<>> /\ Took("check_conf")
                     /\ last.check = "ok")
        /\ Took("_reload_unbound") <=> last.reload # "none"
        /\ Took("_reload_unbound")
              => /\ Positions("_reload_unbound") = {Len(last.steps)}
                 /\ ~RolledBack
        /\ RolledBack => (Took("check_conf") /\ last.check # "ok"
                            /\ \A i \in Positions("restore_backup") :
                                  i > First("check_conf"))

\* An apply whose check failed and that rolled back without a reload.
C24_Witness ==
    /\ last.op = "api_config_put"
    /\ RolledBack
    /\ last.check = "nonzero"
    /\ ~Took("_reload_unbound")
    /\ last.steps[Len(last.steps)] = "save_config"

(***************************************************************************)
(* A source removed while a refresh is in progress.                        *)
(***************************************************************************)
\* The sources the last refresh read at line 292 that are configured no
\* more: they were removed after the refresh had started.
RemovedSinceRead == SetOf(bl_last.blocklists) \ SetOf(load_blocklists)

\* C25: when a source is removed while a refresh that started before the
\* removal is in progress, then once both have finished the status holds
\* no entry for the removed source: its keys are among the configured
\* sources.
C25_RemovedSourceLeavesStatus ==
    (AllIdle /\ IsRefresh /\ bl_last.http = 200 /\ RemovedSinceRead # {}) =>
        /\ RemovedSinceRead \cap DOMAIN load_blocklist_status = {}
        /\ DOMAIN load_blocklist_status \subseteq SetOf(load_blocklists)

(***************************************************************************)
(* What the requests on the sources and on the whitelist leave alone.      *)
(***************************************************************************)
IsSourceEdit == bl_last.op \in {"api_blocklists_add", "api_blocklists_remove"}
IsWhitelistEdit == bl_last.op \in {"api_whitelist_add", "api_whitelist_remove"}

\* The files of the lists, by their place in list_files, that the last
\* request may have written: its own document and, for the removal of a
\* source, the status.
MayWrite ==
    (IF IsSourceEdit THEN {1} ELSE {})
    \cup (IF IsWhitelistEdit THEN {2} ELSE {})
    \cup (IF bl_last.op = "api_blocklists_remove" THEN {3} ELSE {})

\* The domains the policy file refuses.
PolicyDomains == { DomainOfDirective(blocklist_conf.text[n]) : n \in DOMAIN blocklist_conf.text }

\* C26: an add to or a remove from the sources or the whitelist writes its
\* own document only (a removed source also its status entry), leaves the
\* policy file as it was and issues no reload; no add or remove on any list
\* changes the policy file, so that a domain whitelisted since the last
\* refresh stays in the policy file; right after a refresh the policy
\* file holds no domain of the whitelist that refresh read.
C26_OnlyRefreshWritesPolicy ==
    /\ (IsSourceEdit \/ IsWhitelistEdit)
          => /\ bl_last.reload = "none"
             /\ \A n \in DOMAIN list_files :
                   list_files[n] # bl_last.before[n] => n \in MayWrite
             /\ blocklist_conf = bl_last.before[4]
    /\ (IsAdd \/ IsRemove) => blocklist_conf = bl_last.before[4]
    /\ (bl_last.op = "api_whitelist_add" /\ bl_last.http = 201)
          => \A n \in DOMAIN bl_last.before[4].text :
                \E m \in DOMAIN blocklist_conf.text :
                   blocklist_conf.text[m] = bl_last.before[4].text[n]
    /\ (IsRefresh /\ bl_last.http = 200)
          => PolicyDomains \cap { lower(d) : d \in SetOf(bl_last.whitelist) } = {}

\* A domain of the policy file has just been whitelisted and is still
\* refused, after a refresh that left the file without whitelisted domains.
C26_Witness ==
    /\ bl_last.op = "api_whitelist_add"
    /\ bl_last.http = 201
    /\ bl_last.body.key = "y.com"
    /\ load_whitelist = << "y.com" >>
    /\ WhitelistBefore = <<>>
    /\ "y.com" \in PolicyDomains
    /\ blocklist_conf = bl_last.before[4]
    /\ blocklist_status_file = bl_last.before[3]
    /\ DOMAIN load_blocklist_status # {}
====
